---- MODULE Spec2Model ----
(***************************************************************************)
(* A model of the NES emulator core (package nes): the Bus with its master *)
(* clock and OAM-DMA state machine, the 6502 interpreter, and the PPU's    *)
(* scanline/cycle state machine with its CPU-visible register ports.       *)
(*                                                                         *)
(* The whole machine is one record, nes, laid out as the Go Bus struct     *)
(* (nes.Cpu, nes.Ppu, nes.Ram, nes.ClockCount, nes.dma...).  Every method  *)
(* of the source is an operator from the record(s) it touches to their new *)
(* value; an action applies one public operation.  Bytes read from the     *)
(* cartridge (PRG-ROM) are inputs of the step that reads them.  The        *)
(* variable obs only records what the last step did; no operator of the    *)
(* machine reads it.                                                       *)
(*                                                                         *)
(* Left out: the pixel pipeline of the PPU (tile latches, pattern and      *)
(* attribute shifters, palette look-up, display calls) and the CPU logger. *)
(* They are written by Ppu.Clock / Cpu6502.Clock but nothing modelled here *)
(* reads them.  The run of Cpu.Disassemble in main.go, which reads every  *)
(* CPU address once before Reset, is modelled in SpecDis only.             *)
(*                                                                         *)
(* A mapper-0 cartridge is taken to be inserted (Bus.InsertCartridge), so  *)
(* that addresses from 0x8000 up are served by the cartridge.  Ppu.oam and *)
(* the loopy toggleNametableH/V helpers are used by the source but are not *)
(* defined in it; they are modelled from oam.go and from the description   *)
(* of the scroll registers.                                                *)
(*                                                                         *)
(* The specifications share the machine: Spec drives Bus.Clock through    *)
(* one frame with stores to RAM and to the DMA port, SpecCpu drives        *)
(* Cpu6502.Clock alone over every opcode, SpecPpu drives Bus.Clock over    *)
(* two frames with reads and writes of the PPU ports around V-blank; the   *)
(* others, each introduced where it is defined, start the machine in the   *)
(* states one group of properties is about.                                *)
(***************************************************************************)
EXTENDS Integers, Sequences, FiniteSets, TLC

VARIABLES nes, obs

vars == <<nes, obs>>

----------------------------------------------------------------------------
(* Fixed-width arithmetic.                                                 *)

Byte(v) == v % 256

Word(v) == v % 65536

\* bit n of v (0 or 1)
Bit(v, n) == (v \div (2 ^ n)) % 2

\* v with the bits of the contiguous field [lo, lo+width) replaced by the low
\* `width` bits of val:  v &^ mask | (val & (2^width - 1)) << lo
SetField(v, lo, width, val) ==
    LET low  == v % (2 ^ lo)
        high == (v \div (2 ^ (lo + width))) * (2 ^ (lo + width))
    IN  high + (val % (2 ^ width)) * (2 ^ lo) + low

\* the contiguous field [lo, lo+width) of v
GetField(v, lo, width) == (v \div (2 ^ lo)) % (2 ^ width)

And8(a, b) ==
      Bit(a, 0) * Bit(b, 0)       + Bit(a, 1) * Bit(b, 1) * 2
    + Bit(a, 2) * Bit(b, 2) * 4   + Bit(a, 3) * Bit(b, 3) * 8
    + Bit(a, 4) * Bit(b, 4) * 16  + Bit(a, 5) * Bit(b, 5) * 32
    + Bit(a, 6) * Bit(b, 6) * 64  + Bit(a, 7) * Bit(b, 7) * 128

Or8(a, b) == a + b - And8(a, b)

Xor8(a, b) == a + b - 2 * And8(a, b)

----------------------------------------------------------------------------
(* PPU registers (PpuReg) and their flags: a flag is its bit mask.         *)

ctrlVramInc == 4
ctrlNmi == 128
maskBgShow == 8
maskSpriteShow == 16
statusVBlank == 128

\* *r |= flag
setFlag(r, flag) == IF (r \div flag) % 2 = 1 THEN r ELSE r + flag

\* clearFlag on a copy of the register (a value receiver): nothing changes
clearFlag_onCopy(r, flag) == r

\* *r &^= flag
clearFlag(r, flag) == IF (r \div flag) % 2 = 1 THEN r - flag ELSE r

getFlag(r, flag) == IF (r \div flag) % 2 = 0 THEN 0 ELSE 1

----------------------------------------------------------------------------
(* Loopy registers (PpuLoopyReg, a uint16): yyy NN YYYYY XXXXX.            *)

setCoarseX(r, val) == SetField(r, 0, 5, val)

setCoarseY(r, val) == SetField(r, 5, 5, val)

setNametable(r, val) == SetField(r, 10, 2, val)

setFineY(r, val) == SetField(r, 12, 3, val)

getCoarseX(r) == GetField(r, 0, 5)

\* In the source these three getters return the constant 0.
getCoarseY(r) == 0

getNametable(r) == 0

getFineY(r) == 0

\* Not in the source tree (only called there): flip the horizontal /
\* vertical nametable-select bit, as the PPU scrolling section describes.
toggleNametableH(r) == SetField(r, 10, 1, 1 - Bit(r, 10))

toggleNametableV(r) == SetField(r, 11, 1, 1 - Bit(r, 11))

----------------------------------------------------------------------------
(* Sparse byte memories: a function from the addresses holding a non-zero  *)
(* byte to that byte; every other address reads 0 (Go's zero value).       *)

MemRead(mem, a) == IF a \in DOMAIN mem THEN mem[a] ELSE 0

MemWrite(mem, a, d) ==
    IF d = 0
    THEN [x \in (DOMAIN mem) \ {a} |-> mem[x]]
    ELSE [x \in (DOMAIN mem) \cup {a} |-> IF x = a THEN d ELSE mem[x]]

EmptyMem == [x \in {} |-> 0]

----------------------------------------------------------------------------
(* Object attribute memory: objectAttributeMemory is a slice of oamSprite  *)
(* VALUES; address a is field (a mod 4) of sprite (a div 4).  The model    *)
(* keeps it flat, indexed by the byte address.                             *)

oamRead(oam, addr) == MemRead(oam, addr)

\* write() copies the sprite out of the slice (sprite := oam[spriteIdx]) and
\* assigns the field of that copy; the slice element is never stored back.
oamWrite(oam, addr, data) ==
    LET sprite  == [f \in 0..3 |-> MemRead(oam, (addr \div 4) * 4 + f)]
        written == [sprite EXCEPT ![addr % 4] = data]
    IN  oam
----------------------------------------------------------------------------
(* The PPU.                                                                *)

ppuMaxAddr == 16383
paletteAddr == 16128
nameTblAddrEnd == 16127
patternTblAddrEnd == 8191

NewPpu ==
    [ ppuCtrl |-> 0, ppuMask |-> 0, ppuStatus |-> 0, nmi |-> FALSE,
      scanline |-> 0, cycle |-> 0, frameComplete |-> TRUE, frames |-> 0,
      dataBuffer |-> 0, vRam |-> 0, tRam |-> 0, scrollFineX |-> 0,
      addrLatch |-> 0,
      nameTable |-> EmptyMem, paletteTable |-> EmptyMem, oam |-> EmptyMem ]

\* shouldRender that ignores PPUMASK
shouldRender_always(p) == TRUE

shouldRender(p) ==
    getFlag(p.ppuMask, maskBgShow) > 0 \/ getFlag(p.ppuMask, maskSpriteShow) > 0

\* relative nametable address (0..0x0FFF) -> table 0..3
getNametableId(addr) ==
    IF addr < 1024 THEN 0 ELSE IF addr < 2048 THEN 1 ELSE IF addr < 3072 THEN 2 ELSE 3

\* Ppu.nametableRead: nameTable[t][addr & 0x3FF] for the table t the switch
\* selects under the cartridge's mirroring (0 when it selects none).  The
\* two tables are kept in one memory, cell t * 1024 + offset.
nametableRead(p, mirroring, addr) ==
    LET rel == addr % 4096
        id  == getNametableId(rel)
        cell(t) == MemRead(p.nameTable, t * 1024 + (rel % 1024))
    IN  CASE id = 0 -> cell(0)
          [] id = 1 -> IF mirroring = "horizontal" THEN cell(0)
                       ELSE IF mirroring = "vertical" THEN cell(1) ELSE 0
          [] id = 2 -> IF mirroring = "horizontal" THEN cell(1)
                       ELSE IF mirroring = "vertical" THEN cell(0) ELSE 0
          [] OTHER  -> cell(1)

\* nametableWrite that takes every cartridge as vertically mirrored
nametableWrite_vertical(p, mirroring, addr, data) ==
    LET rel == addr % 4096
        id  == getNametableId(rel)
        store(t) == [p EXCEPT !.nameTable = MemWrite(@, t * 1024 + (rel % 1024), data)]
    IN  CASE id = 0 -> store(0)
          [] id = 1 -> store(1)
          [] id = 2 -> store(0)
          [] OTHER  -> store(1)

\* Ppu.nametableWrite
nametableWrite(p, mirroring, addr, data) ==
    LET rel == addr % 4096
        id  == getNametableId(rel)
        store(t) == [p EXCEPT !.nameTable = MemWrite(@, t * 1024 + (rel % 1024), data)]
    IN  CASE id = 0 -> store(0)
          [] id = 1 -> IF mirroring = "horizontal" THEN store(0)
                       ELSE IF mirroring = "vertical" THEN store(1) ELSE p
          [] id = 2 -> IF mirroring = "horizontal" THEN store(1)
                       ELSE IF mirroring = "vertical" THEN store(0) ELSE p
          [] OTHER  -> store(1)

\* palette index with the mirrors 0x10/0x14/0x18/0x1C -> 0x00/0x04/0x08/0x0C
paletteIndex(addr) ==
    LET a == addr % 32
    IN  IF a \in {16, 20, 24, 28} THEN a - 16 ELSE a

\* chr: the byte the cartridge returns if the address is in pattern memory
ppuRead(p, mirroring, addr0, chr) ==
    LET addr == addr0 % (ppuMaxAddr + 1)
    IN  IF addr <= patternTblAddrEnd THEN chr
        ELSE IF addr <= nameTblAddrEnd THEN nametableRead(p, mirroring, addr)
        ELSE MemRead(p.paletteTable, paletteIndex(addr))

\* Writes to pattern memory go to the cartridge, whose memory is an input
\* of the model and is not tracked.
ppuWrite(p, mirroring, addr0, data) ==
    LET addr == addr0 % (ppuMaxAddr + 1)
    IN  IF addr <= patternTblAddrEnd THEN p
        ELSE IF addr <= nameTblAddrEnd THEN nametableWrite(p, mirroring, addr, data)
        ELSE [p EXCEPT !.paletteTable = MemWrite(@, paletteIndex(addr), data)]

\* the port's VRAM address increment, bit 2 of PPUCTRL ignored
vramStep_one(p) == 1

\* the port's VRAM address increment
vramStep(p) == IF getFlag(p.ppuCtrl, ctrlVramInc) = 0 THEN 1 ELSE 32

\* Ppu.cpuRead whose status read leaves the write toggle alone
Ppu_cpuRead_keepLatch(p, mirroring, addr, chr) ==
    CASE addr = 2 -> [ data |-> (p.ppuStatus \div 32) * 32,
                       ppu  |-> [p EXCEPT !.ppuStatus = clearFlag(@, statusVBlank)] ]
      [] OTHER -> [ data |-> 0, ppu |-> p ]

\* Ppu.cpuRead(addr) for addr in 0..7: the byte returned and the PPU after.
Ppu_cpuRead(p, mirroring, addr, chr) ==
    LET \* PPUDATA: the buffered byte (the byte read, in palette memory)
        dataRead(buf) ==
            [ data |-> IF p.vRam >= paletteAddr THEN buf ELSE p.dataBuffer,
              ppu  |-> [p EXCEPT !.dataBuffer = buf,
                                 !.vRam = Word(@ + vramStep(p))] ]
    IN  CASE addr = 2 ->
                [ data |-> (p.ppuStatus \div 32) * 32,
                  ppu  |-> [p EXCEPT !.ppuStatus = clearFlag(@, statusVBlank),
                                     !.addrLatch = 0] ]
          [] addr = 7 -> dataRead(ppuRead(p, mirroring, p.vRam, chr))
          [] OTHER -> [ data |-> 0, ppu |-> p ]

\* Ppu.cpuWrite(addr, data) for addr in 0..7.
Ppu_cpuWrite(p, mirroring, addr, data) ==
    CASE addr = 0 -> [p EXCEPT !.ppuCtrl = data, !.tRam = setNametable(@, data % 4)]
      [] addr = 1 -> [p EXCEPT !.ppuMask = data]
      [] addr = 5 ->
            IF p.addrLatch = 0
            THEN [p EXCEPT !.tRam = setCoarseX(@, data \div 8),
                           !.scrollFineX = data % 8,
                           !.addrLatch = 1]
            ELSE [p EXCEPT !.tRam = setFineY(setCoarseY(@, data \div 8), data % 8),
                           !.addrLatch = 0]
      [] addr = 6 ->
            IF p.addrLatch = 0
            THEN \* setBits | *tRam & 0xFF, then clear bit 14
                 [p EXCEPT !.tRam = SetField((data % 64) * 256 + (@ % 256), 14, 1, 0),
                           !.addrLatch = 1]
            ELSE [p EXCEPT !.tRam = (@ \div 256) * 256 + data,
                           !.vRam = (p.tRam \div 256) * 256 + data,
                           !.addrLatch = 0]
      [] addr = 7 ->
            [ppuWrite(p, mirroring, p.vRam, data) EXCEPT !.vRam = Word(@ + vramStep(p))]
      [] OTHER -> p

incrementVerticalScroll(v) ==
    LET wrapY(w, y) ==
            IF y = 29 THEN setCoarseY(toggleNametableV(w), 0)
            ELSE IF y = 31 THEN setCoarseY(w, 0)
            ELSE setCoarseY(w, y + 1)
    IN  IF getFineY(v) < 7
        THEN Word(v + 4096)
        ELSE wrapY(setFineY(v, 0), getCoarseY(v))

\* the "increment horizontal scroll" arm of the 8-cycle fetch pattern
incrementHorizontalScroll(v) ==
    IF getCoarseX(v) = 31 THEN toggleNametableH(setCoarseX(v, 0)) ELSE Word(v + 1)

\* Ppu.renderBackground, without the tile fetches and the pixel output.
renderBackground(p) ==
    LET \* scanline -1, cycle 1: leave vertical blank
        leaveVBlank(q) ==
            IF q.scanline = -1 /\ q.cycle = 1
            THEN [q EXCEPT !.ppuStatus = clearFlag(@, statusVBlank)] ELSE q
        \* the skipped cycle of odd frames
        skipCycle(q) ==
            IF q.scanline = 0 /\ q.cycle = 0 /\ q.frames % 2 = 1
            THEN [q EXCEPT !.cycle = @ + 1] ELSE q
        scrollX(q) ==
            IF /\ (q.cycle >= 2 /\ q.cycle <= 257) \/ (q.cycle >= 321 /\ q.cycle <= 337)
               /\ (q.cycle - 1) % 8 = 7
               /\ shouldRender(q)
            THEN [q EXCEPT !.vRam = incrementHorizontalScroll(@)] ELSE q
        scrollY(q) ==
            IF q.cycle = 256 /\ shouldRender(q)
            THEN [q EXCEPT !.vRam = incrementVerticalScroll(@)] ELSE q
        transferX(q) ==
            IF q.cycle = 257 /\ shouldRender(q)
            THEN [q EXCEPT !.vRam =
                     setCoarseX(setNametable(@, getNametable(q.tRam) % 2),
                                getCoarseX(q.tRam))]
            ELSE q
        transferY(q) ==
            IF q.scanline = -1 /\ q.cycle >= 280 /\ q.cycle <= 304 /\ shouldRender(q)
            THEN [q EXCEPT !.vRam =
                     setFineY(setCoarseY(setNametable(@,
                                  (getNametable(q.tRam) \div 2) * 2),
                              getCoarseY(q.tRam)), getFineY(q.tRam))]
            ELSE q
        visible(q) ==
            IF q.scanline >= -1 /\ q.scanline < 240
            THEN transferY(transferX(scrollY(scrollX(skipCycle(leaveVBlank(q))))))
            ELSE q
        \* scanline 241, cycle 1: enter vertical blank
        enterVBlank(q) ==
            IF q.scanline = 241 /\ q.cycle = 1
            THEN [q EXCEPT !.ppuStatus = setFlag(@, statusVBlank),
                           !.nmi = IF getFlag(q.ppuCtrl, ctrlNmi) = 1 THEN TRUE ELSE @]
            ELSE q
    IN  enterVBlank(visible(p))

\* Ppu.Clock that wraps to the pre-render scanline without raising
\* frameComplete
Ppu_Clock_silent(p) ==
    LET advance(q) ==
            IF q.cycle + 1 >= 341
            THEN IF q.scanline + 1 >= 261
                 THEN [q EXCEPT !.cycle = 0, !.scanline = -1, !.frames = @ + 1]
                 ELSE [q EXCEPT !.cycle = 0, !.scanline = @ + 1]
            ELSE [q EXCEPT !.cycle = @ + 1]
    IN  advance(renderBackground(p))

\* Ppu.Clock: one PPU cycle.
Ppu_Clock(p) ==
    LET advance(q) ==
            IF q.cycle + 1 >= 341
            THEN IF q.scanline + 1 >= 261
                 THEN [q EXCEPT !.cycle = 0, !.scanline = -1, !.frameComplete = TRUE,
                                !.frames = @ + 1]
                 ELSE [q EXCEPT !.cycle = 0, !.scanline = @ + 1]
            ELSE [q EXCEPT !.cycle = @ + 1]
    IN  advance(renderBackground(p))
----------------------------------------------------------------------------
(* The bus as the CPU sees it.                                             *)

ramMaxAddr == 8191
ramMirror == 2047
ppuMinAddr == 8192
ppuMirror == 7
cartMinAddr == 32768
dmaAddr == 16404
ctrlMinAddr == 16406
ctrlMaxAddr == 16407

\* indices of the buttons in Controller.buttonState
keyRight == 0
keyLeft == 1
keyDown == 2
keyUp == 3
keyStart == 4
keySelect == 5
keyB == 6
keyA == 7

\* NewController: eight buttons, none pressed
NewController == [pos \in 0..7 |-> FALSE]

\* Controller.GetState: bit pos of the byte is set iff button pos is pressed
GetState(buttonState) ==
    LET bit(pos) == IF buttonState[pos] THEN 2 ^ pos ELSE 0
    IN  bit(0) + bit(1) + bit(2) + bit(3) + bit(4) + bit(5) + bit(6) + bit(7)

\* Mapper000: the numbers of 16 KiB PRG and 8 KiB CHR chunks of the cartridge
NewMapper000(prgRomChunks, chrRomChunks) ==
    [ PrgBanks |-> prgRomChunks, ChrBanks |-> chrRomChunks ]

\* Mapper000.cpuMapRead(addr, &mappedAddr): whether the address is mapped,
\* and the offset stored through the pointer (left at 0 when unmapped)
cpuMapRead(m, addr) ==
    IF addr >= 32768 /\ addr <= 65535
    THEN [ ok |-> TRUE,
           mappedAddr |-> IF m.PrgBanks > 1 THEN addr % 16384 ELSE addr % 32768 ]
    ELSE [ ok |-> FALSE, mappedAddr |-> 0 ]

\* Mapper000.cpuMapWrite(addr, &mappedAddr)
cpuMapWrite(m, addr) ==
    IF addr >= 32768 /\ addr <= 65535
    THEN [ ok |-> TRUE,
           mappedAddr |-> IF m.PrgBanks > 1 THEN addr % 16384 ELSE addr % 32768 ]
    ELSE [ ok |-> FALSE, mappedAddr |-> 0 ]

\* len(cartridge.prgMem): 16 KiB for each PRG chunk of the header
PrgSize(c) == 16 * 1024 * c.mapper.PrgBanks

\* The cartridge.  prgMem holds the offsets the CPU has stored to and the
\* bytes stored; every other offset holds the byte loaded from the file,
\* which is an input (rom).  fault records that an index outside prgMem
\* was used: the Go runtime panics and the program stops.
NewCart(prgRomChunks, chrRomChunks) ==
    [ mirroring |-> "horizontal",
      mapper |-> NewMapper000(prgRomChunks, chrRomChunks),
      prgMem |-> [x \in {} |-> 0], fault |-> FALSE ]

\* Cartridge.cpuRead(addr, &data): the byte read (0 when the address is not
\* mapped) and the cartridge after the read
Cart_cpuRead(c, addr, rom) ==
    LET at(m) ==
            IF ~m.ok THEN [ ok |-> FALSE, data |-> 0, cart |-> c ]
            ELSE IF m.mappedAddr >= PrgSize(c)
            THEN [ ok |-> FALSE, data |-> 0, cart |-> [c EXCEPT !.fault = TRUE] ]
            ELSE [ ok |-> TRUE,
                   data |-> IF m.mappedAddr \in DOMAIN c.prgMem
                            THEN c.prgMem[m.mappedAddr] ELSE rom,
                   cart |-> c ]
    IN  at(cpuMapRead(c.mapper, addr))

\* Cartridge.cpuWrite(addr, data): the cartridge after the write
Cart_cpuWrite(c, addr, data) ==
    LET at(m) ==
            IF ~m.ok THEN c
            ELSE IF m.mappedAddr >= PrgSize(c) THEN [c EXCEPT !.fault = TRUE]
            ELSE [c EXCEPT !.prgMem =
                     [x \in (DOMAIN @) \cup {m.mappedAddr} |->
                         IF x = m.mappedAddr THEN data ELSE @[x]]]
    IN  at(cpuMapWrite(c.mapper, addr))

\* Bus.CpuRead(addr): the byte returned and the bus after the read.  rom is
\* the byte the cartridge holds at the address read (used only when the
\* read reaches the cartridge: PRG-ROM here, pattern memory through PPUDATA).
CpuRead(b, addr, rom) ==
    LET port(r) == [ data |-> r.data, bus |-> [b EXCEPT !.Ppu = r.ppu] ]
        cart(r) == [ data |-> r.data, bus |-> [b EXCEPT !.Cart = r.cart] ]
    IN  IF addr <= ramMaxAddr
        THEN [ data |-> MemRead(b.Ram, addr % (ramMirror + 1)), bus |-> b ]
        ELSE IF addr >= ppuMinAddr /\ addr <= ppuMaxAddr
        THEN port(Ppu_cpuRead(b.Ppu, b.Cart.mirroring, addr % (ppuMirror + 1), rom))
        ELSE IF addr >= cartMinAddr
        THEN cart(Cart_cpuRead(b.Cart, addr, rom))
        ELSE IF addr >= ctrlMinAddr /\ addr <= ctrlMaxAddr
        THEN [ data |-> b.ControllerState[addr % 2] \div 128,
               bus  |-> [b EXCEPT !.ControllerState[addr % 2] = Byte(@ * 2)] ]
        ELSE [ data |-> 0, bus |-> b ]

\* Bus.CpuWrite with the RAM mirrored every 4 KiB
CpuWrite_wide(b, addr, data) ==
    IF addr <= ramMaxAddr
    THEN [b EXCEPT !.Ram = MemWrite(@, addr % 4096, data)]
    ELSE IF addr >= ppuMinAddr /\ addr <= ppuMaxAddr
    THEN [b EXCEPT !.Ppu = Ppu_cpuWrite(@, b.Cart.mirroring, addr % (ppuMirror + 1), data)]
    ELSE IF addr >= cartMinAddr
    THEN [b EXCEPT !.Cart = Cart_cpuWrite(@, addr, data)]
    ELSE IF addr = dmaAddr
    THEN [b EXCEPT !.dmaPage = data, !.dmaAddr = 0, !.dmaTransfer = TRUE]
    ELSE IF addr >= ctrlMinAddr /\ addr <= ctrlMaxAddr
    THEN [b EXCEPT !.ControllerState[addr % 2] = GetState(b.Controller[addr % 2])]
    ELSE b

\* Bus.CpuWrite(addr, data)
CpuWrite(b, addr, data) ==
    IF addr <= ramMaxAddr
    THEN [b EXCEPT !.Ram = MemWrite(@, addr % (ramMirror + 1), data)]
    ELSE IF addr >= ppuMinAddr /\ addr <= ppuMaxAddr
    THEN [b EXCEPT !.Ppu = Ppu_cpuWrite(@, b.Cart.mirroring, addr % (ppuMirror + 1), data)]
    ELSE IF addr >= cartMinAddr
    THEN [b EXCEPT !.Cart = Cart_cpuWrite(@, addr, data)]
    ELSE IF addr = dmaAddr
    THEN [b EXCEPT !.dmaPage = data, !.dmaAddr = 0, !.dmaTransfer = TRUE]
    ELSE IF addr >= ctrlMinAddr /\ addr <= ctrlMaxAddr
    THEN [b EXCEPT !.ControllerState[addr % 2] = GetState(b.Controller[addr % 2])]
    ELSE b

\* addresses whose read changes the machine (PPU ports, controller ports)
ReadHasEffect(addr) ==
    \/ addr >= ppuMinAddr /\ addr <= ppuMaxAddr
    \/ addr >= ctrlMinAddr /\ addr <= ctrlMaxAddr

----------------------------------------------------------------------------
(* The 6502.                                                               *)

StatusFlagC == 1
StatusFlagZ == 2
StatusFlagI == 4
StatusFlagD == 8
StatusFlagB == 16
StatusFlagX == 32
StatusFlagV == 64
StatusFlagN == 128

stackBase == 256
resetVectAddr == 65532
irqVectAddr == 65534
nmiVectAddr == 65530

\* Cpu6502.InstLookup, one sequence per column of the table; entry
\* opcode + 1 describes the opcode.
InstName ==
    << "BRK", "ORA", "XXX", "XXX", "NOP", "ORA", "ASL", "XXX", "PHP", "ORA", "ASL", "XXX", "NOP", "ORA", "ASL", "XXX",
       "BPL", "ORA", "XXX", "XXX", "NOP", "ORA", "ASL", "XXX", "CLC", "ORA", "NOP", "XXX", "NOP", "ORA", "ASL", "XXX",
       "JSR", "AND", "XXX", "XXX", "BIT", "AND", "ROL", "XXX", "PLP", "AND", "ROL", "XXX", "BIT", "AND", "ROL", "XXX",
       "BMI", "AND", "XXX", "XXX", "NOP", "AND", "ROL", "XXX", "SEC", "AND", "NOP", "XXX", "NOP", "AND", "ROL", "XXX",
       "RTI", "EOR", "XXX", "XXX", "NOP", "EOR", "LSR", "XXX", "PHA", "EOR", "LSR", "XXX", "JMP", "EOR", "LSR", "XXX",
       "BVC", "EOR", "XXX", "XXX", "NOP", "EOR", "LSR", "XXX", "CLI", "EOR", "NOP", "XXX", "NOP", "EOR", "LSR", "XXX",
       "RTS", "ADC", "XXX", "XXX", "NOP", "ADC", "ROR", "XXX", "PLA", "ADC", "ROR", "XXX", "JMP", "ADC", "ROR", "XXX",
       "BVS", "ADC", "XXX", "XXX", "NOP", "ADC", "ROR", "XXX", "SEI", "ADC", "NOP", "XXX", "NOP", "ADC", "ROR", "XXX",
       "NOP", "STA", "NOP", "XXX", "STY", "STA", "STX", "XXX", "DEY", "NOP", "TXA", "XXX", "STY", "STA", "STX", "XXX",
       "BCC", "STA", "XXX", "XXX", "STY", "STA", "STX", "XXX", "TYA", "STA", "TXS", "XXX", "XXX", "STA", "XXX", "XXX",
       "LDY", "LDA", "LDX", "XXX", "LDY", "LDA", "LDX", "XXX", "TAY", "LDA", "TAX", "XXX", "LDY", "LDA", "LDX", "XXX",
       "BCS", "LDA", "XXX", "XXX", "LDY", "LDA", "LDX", "XXX", "CLV", "LDA", "TSX", "XXX", "LDY", "LDA", "LDX", "XXX",
       "CPY", "CMP", "NOP", "XXX", "CPY", "CMP", "DEC", "XXX", "INY", "CMP", "DEX", "XXX", "CPY", "CMP", "DEC", "XXX",
       "BNE", "CMP", "XXX", "XXX", "NOP", "CMP", "DEC", "XXX", "CLD", "CMP", "NOP", "XXX", "NOP", "CMP", "DEC", "XXX",
       "CPX", "SBC", "NOP", "XXX", "CPX", "SBC", "INC", "XXX", "INX", "SBC", "NOP", "XXX", "CPX", "SBC", "INC", "XXX",
       "BEQ", "SBC", "XXX", "XXX", "NOP", "SBC", "INC", "XXX", "SED", "SBC", "NOP", "XXX", "NOP", "SBC", "INC", "XXX" >>

InstAddrMode ==
    << "IMP", "IZX", "IMP", "IMP", "ZP0", "ZP0", "ZP0", "IMP", "IMP", "IMM", "IMP", "IMP", "ABS", "ABS", "ABS", "IMP",
       "REL", "IZY", "IMP", "IMP", "ZPX", "ZPX", "ZPX", "IMP", "IMP", "ABY", "IMP", "IMP", "ABX", "ABX", "ABX", "IMP",
       "ABS", "IZX", "IMP", "IMP", "ZP0", "ZP0", "ZP0", "IMP", "IMP", "IMM", "IMP", "IMP", "ABS", "ABS", "ABS", "IMP",
       "REL", "IZY", "IMP", "IMP", "ZPX", "ZPX", "ZPX", "IMP", "IMP", "ABY", "IMP", "IMP", "ABX", "ABX", "ABX", "IMP",
       "IMP", "IZX", "IMP", "IMP", "ZP0", "ZP0", "ZP0", "IMP", "IMP", "IMM", "IMP", "IMP", "ABS", "ABS", "ABS", "IMP",
       "REL", "IZY", "IMP", "IMP", "ZPX", "ZPX", "ZPX", "IMP", "IMP", "ABY", "IMP", "IMP", "ABX", "ABX", "ABX", "IMP",
       "IMP", "IZX", "IMP", "IMP", "ZP0", "ZP0", "ZP0", "IMP", "IMP", "IMM", "IMP", "IMP", "IND", "ABS", "ABS", "IMP",
       "REL", "IZY", "IMP", "IMP", "ZPX", "ZPX", "ZPX", "IMP", "IMP", "ABY", "IMP", "IMP", "ABX", "ABX", "ABX", "IMP",
       "IMM", "IZX", "IMM", "IMP", "ZP0", "ZP0", "ZP0", "IMP", "IMP", "IMM", "IMP", "IMP", "ABS", "ABS", "ABS", "IMP",
       "REL", "IZY", "IMP", "IMP", "ZPX", "ZPX", "ZPY", "IMP", "IMP", "ABY", "IMP", "IMP", "IMP", "ABX", "IMP", "IMP",
       "IMM", "IZX", "IMM", "IMP", "ZP0", "ZP0", "ZP0", "IMP", "IMP", "IMM", "IMP", "IMP", "ABS", "ABS", "ABS", "IMP",
       "REL", "IZY", "IMP", "IMP", "ZPX", "ZPX", "ZPY", "IMP", "IMP", "ABY", "IMP", "IMP", "ABX", "ABX", "ABY", "IMP",
       "IMM", "IZX", "IMM", "IMP", "ZP0", "ZP0", "ZP0", "IMP", "IMP", "IMM", "IMP", "IMP", "ABS", "ABS", "ABS", "IMP",
       "REL", "IZY", "IMP", "IMP", "ZPX", "ZPX", "ZPX", "IMP", "IMP", "ABY", "IMP", "IMP", "ABX", "ABX", "ABX", "IMP",
       "IMM", "IZX", "IMM", "IMP", "ZP0", "ZP0", "ZP0", "IMP", "IMP", "IMM", "IMP", "IMP", "ABS", "ABS", "ABS", "IMP",
       "REL", "IZY", "IMP", "IMP", "ZPX", "ZPX", "ZPX", "IMP", "IMP", "ABY", "IMP", "IMP", "ABX", "ABX", "ABX", "IMP" >>

InstCycles ==
    << 7, 6, 2, 8, 3, 3, 5, 5, 3, 2, 2, 2, 4, 4, 6, 6,
       2, 5, 2, 8, 4, 4, 6, 6, 2, 4, 2, 7, 4, 4, 7, 7,
       6, 6, 2, 8, 3, 3, 5, 5, 4, 2, 2, 2, 4, 4, 6, 6,
       2, 5, 2, 8, 4, 4, 6, 6, 2, 4, 2, 7, 4, 4, 7, 7,
       6, 6, 2, 8, 3, 3, 5, 5, 3, 2, 2, 2, 3, 4, 6, 6,
       2, 5, 2, 8, 4, 4, 6, 6, 2, 4, 2, 7, 4, 4, 7, 7,
       6, 6, 2, 8, 3, 3, 5, 5, 4, 2, 2, 2, 5, 4, 6, 6,
       2, 5, 2, 8, 4, 4, 6, 6, 2, 4, 2, 7, 4, 4, 7, 7,
       2, 6, 2, 6, 3, 3, 3, 3, 2, 2, 2, 2, 4, 4, 4, 6,
       2, 6, 2, 6, 4, 4, 4, 4, 2, 5, 2, 5, 5, 5, 5, 7,
       2, 6, 2, 6, 3, 3, 3, 3, 2, 2, 2, 2, 4, 4, 4, 6,
       2, 5, 2, 5, 4, 4, 4, 4, 2, 4, 2, 4, 4, 4, 4, 7,
       2, 6, 2, 8, 3, 3, 5, 5, 2, 2, 2, 2, 4, 4, 6, 6,
       2, 5, 2, 8, 4, 4, 6, 6, 2, 4, 2, 7, 4, 4, 7, 7,
       2, 6, 2, 8, 3, 3, 5, 5, 2, 2, 2, 2, 4, 4, 6, 6,
       2, 5, 2, 8, 4, 4, 6, 6, 2, 4, 2, 7, 4, 4, 7, 7 >>

Inst(opcode) ==
    [ Name |-> InstName[opcode + 1], AddrMode |-> InstAddrMode[opcode + 1],
      Cycles |-> InstCycles[opcode + 1] ]

NewCpu6502 ==
    [ Pc |-> 0, Sp |-> 253, A |-> 0, X |-> 0, Y |-> 0, Status |-> 0,
      Cycles |-> 0, Opcode |-> 0, AddrAbs |-> 0, AddrRel |-> 0, Fetched |-> 0,
      CycleCount |-> 0, isImpliedAddr |-> FALSE ]

\* cpu.getFlag: the status byte masked by the flag (0 or the flag's mask)
cpuGetFlag(b, f) == IF (b.Cpu.Status \div f) % 2 = 1 THEN f ELSE 0

\* cpu.setFlag(f, v)
cpuSetFlag(b, f, v) ==
    [b EXCEPT !.Cpu.Status = IF v THEN setFlag(@, f) ELSE clearFlag(@, f)]

\* cpu.read where the source discards nothing but the byte: instruction
\* bytes, pointers, vectors, the stack.  The steps of the model keep these
\* reads away from the ports whose read has an effect.
read(b, addr, rom) == CpuRead(b, addr, rom).data

readWord(b, addr, romLo, romHi) ==
    read(b, Word(addr + 1), romHi) * 256 + read(b, addr, romLo)

\* cpu.fetch: the data read of an instruction, with the read's effect on
\* the bus.  In immediate mode the byte read is the operand byte.
fetch(b, in) ==
    LET rom == IF InstAddrMode[b.Cpu.Opcode + 1] = "IMM" THEN in.lo ELSE in.data
        fetched(r) == [r.bus EXCEPT !.Cpu.Fetched = r.data]
    IN  IF b.Cpu.isImpliedAddr THEN b
        ELSE fetched(CpuRead(b, b.Cpu.AddrAbs, rom))

write(b, addr, data) == CpuWrite(b, addr, data)

stackPush(b, data) ==
    [CpuWrite(b, stackBase + b.Cpu.Sp, data) EXCEPT !.Cpu.Sp = Byte(@ + 255)]

\* the byte popped and the bus after
stackPop(b) ==
    LET sp == Byte(b.Cpu.Sp + 1)
    IN  [ data |-> read(b, stackBase + sp, 0), bus |-> [b EXCEPT !.Cpu.Sp = sp] ]

\* Reset that spends eight ticks
Cpu_Reset_eight(b, in) ==
    [b EXCEPT !.Cpu.A = 0, !.Cpu.X = 0, !.Cpu.Y = 0,
              !.Cpu.Status = StatusFlagX + StatusFlagI,
              !.Cpu.Sp = 253,
              !.Cpu.Pc = readWord(b, resetVectAddr, in.vecLo, in.vecHi),
              !.Cpu.Opcode = 0, !.Cpu.AddrAbs = 0, !.Cpu.AddrRel = 0,
              !.Cpu.Fetched = 0, !.Cpu.isImpliedAddr = FALSE,
              !.Cpu.CycleCount = 0,
              !.Cpu.Cycles = 8]

Cpu_Reset(b, in) ==
    [b EXCEPT !.Cpu.A = 0, !.Cpu.X = 0, !.Cpu.Y = 0,
              !.Cpu.Status = StatusFlagX + StatusFlagI,
              !.Cpu.Sp = 253,
              !.Cpu.Pc = readWord(b, resetVectAddr, in.vecLo, in.vecHi),
              !.Cpu.Opcode = 0, !.Cpu.AddrAbs = 0, !.Cpu.AddrRel = 0,
              !.Cpu.Fetched = 0, !.Cpu.isImpliedAddr = FALSE,
              !.Cpu.CycleCount = 0,
              !.Cpu.Cycles = 7]

\* the body IRQ and NMI share: push PC and status, load the vector
interrupt(b, vector, in, cycles) ==
    LET setFlags(c) ==
            cpuSetFlag(cpuSetFlag(cpuSetFlag(c, StatusFlagI, TRUE),
                                  StatusFlagB, TRUE), StatusFlagX, TRUE)
        pushStatus(c) == stackPush(c, c.Cpu.Status)
        loadVector(c) ==
            [c EXCEPT !.Cpu.Pc = readWord(c, vector, in.vecLo, in.vecHi),
                      !.Cpu.Cycles = cycles]
    IN  loadVector(pushStatus(setFlags(
            stackPush(stackPush(b, b.Cpu.Pc \div 256), b.Cpu.Pc % 256))))

Cpu_IRQ(b, in) == interrupt(b, irqVectAddr, in, 7)

Cpu_NMI(b, in) == interrupt(b, nmiVectAddr, in, 8)

(* Addressing modes: the bus after (Pc advanced, AddrAbs / AddrRel /       *)
(* Fetched / isImpliedAddr set) and the extra-cycle byte returned.         *)

pageCrossed(a, base) == (a \div 256) # (base \div 256)

amIMP(b, in) ==
    [ bus |-> [b EXCEPT !.Cpu.isImpliedAddr = TRUE, !.Cpu.Fetched = b.Cpu.A], extra |-> 0 ]

amIMM(b, in) ==
    [ bus |-> [b EXCEPT !.Cpu.AddrAbs = b.Cpu.Pc, !.Cpu.Pc = Word(@ + 1)], extra |-> 0 ]

amREL(b, in) ==
    LET rel(addr) ==
            [ bus |-> [b EXCEPT !.Cpu.Pc = Word(@ + 1),
                                !.Cpu.AddrRel = IF addr > 128 THEN addr + 65280 ELSE addr],
              extra |-> 0 ]
    IN  rel(read(b, b.Cpu.Pc, in.lo))

amZP0(b, in) ==
    [ bus |-> [b EXCEPT !.Cpu.AddrAbs = read(b, b.Cpu.Pc, in.lo), !.Cpu.Pc = Word(@ + 1)],
      extra |-> 0 ]

amZPX(b, in) ==
    [ bus |-> [b EXCEPT !.Cpu.AddrAbs = Byte(read(b, b.Cpu.Pc, in.lo) + b.Cpu.X),
                        !.Cpu.Pc = Word(@ + 1)],
      extra |-> 0 ]

amZPY(b, in) ==
    [ bus |-> [b EXCEPT !.Cpu.AddrAbs = Byte(read(b, b.Cpu.Pc, in.lo) + b.Cpu.Y),
                        !.Cpu.Pc = Word(@ + 1)],
      extra |-> 0 ]

amABS(b, in) ==
    [ bus |-> [b EXCEPT !.Cpu.AddrAbs = readWord(b, b.Cpu.Pc, in.lo, in.hi),
                        !.Cpu.Pc = Word(@ + 2)],
      extra |-> 0 ]

amABX(b, in) ==
    LET indexed(addr, abs) ==
            [ bus |-> [b EXCEPT !.Cpu.AddrAbs = abs, !.Cpu.Pc = Word(@ + 2)],
              extra |-> IF pageCrossed(abs, addr) THEN 1 ELSE 0 ]
        from(addr) == indexed(addr, Word(addr + b.Cpu.X))
    IN  from(readWord(b, b.Cpu.Pc, in.lo, in.hi))

amABY(b, in) ==
    LET indexed(addr, abs) ==
            [ bus |-> [b EXCEPT !.Cpu.AddrAbs = abs, !.Cpu.Pc = Word(@ + 2)],
              extra |-> IF pageCrossed(abs, addr) THEN 1 ELSE 0 ]
        from(addr) == indexed(addr, Word(addr + b.Cpu.Y))
    IN  from(readWord(b, b.Cpu.Pc, in.lo, in.hi))

\* amIND that reads the high byte from the address after the pointer
amIND_plain(b, in) ==
    LET hiAddr(addr) == Word(addr + 1)
        through(addr) ==
            [ bus |-> [b EXCEPT !.Cpu.AddrAbs = read(b, hiAddr(addr), in.ptrHi) * 256
                                                + read(b, addr, in.ptrLo),
                                !.Cpu.Pc = Word(@ + 2)],
              extra |-> 0 ]
    IN  through(readWord(b, b.Cpu.Pc, in.lo, in.hi))

amIND(b, in) ==
    LET \* the high byte comes from the start of the page when the pointer
        \* sits on its last byte
        hiAddr(addr) ==
            IF addr % 256 = 255 THEN (addr \div 256) * 256 ELSE Word(addr + 1)
        through(addr) ==
            [ bus |-> [b EXCEPT !.Cpu.AddrAbs = read(b, hiAddr(addr), in.ptrHi) * 256
                                                + read(b, addr, in.ptrLo),
                                !.Cpu.Pc = Word(@ + 2)],
              extra |-> 0 ]
    IN  through(readWord(b, b.Cpu.Pc, in.lo, in.hi))

amIZX(b, in) ==
    LET through(addr) ==
            [ bus |-> [b EXCEPT !.Cpu.AddrAbs = read(b, Byte(addr + 1), 0) * 256
                                                + read(b, addr, 0),
                                !.Cpu.Pc = Word(@ + 1)],
              extra |-> 0 ]
    IN  through(Byte(read(b, b.Cpu.Pc, in.lo) + b.Cpu.X))

amIZY(b, in) ==
    LET indexed(base, abs) ==
            [ bus |-> [b EXCEPT !.Cpu.AddrAbs = abs, !.Cpu.Pc = Word(@ + 1)],
              extra |-> IF pageCrossed(abs, base) THEN 1 ELSE 0 ]
        from(lo, hi) == indexed(hi * 256, Word(hi * 256 + lo + b.Cpu.Y))
        through(addr) == from(read(b, addr, 0), read(b, Byte(addr + 1), 0))
    IN  through(read(b, b.Cpu.Pc, in.lo))

\* cpu.AddrModeFns[mode]()
AddrModeFns(mode, b, in) ==
    CASE mode = "IMP" -> amIMP(b, in)
      [] mode = "IMM" -> amIMM(b, in)
      [] mode = "REL" -> amREL(b, in)
      [] mode = "ZP0" -> amZP0(b, in)
      [] mode = "ZPX" -> amZPX(b, in)
      [] mode = "ZPY" -> amZPY(b, in)
      [] mode = "ABS" -> amABS(b, in)
      [] mode = "ABX" -> amABX(b, in)
      [] mode = "ABY" -> amABY(b, in)
      [] mode = "IND" -> amIND(b, in)
      [] mode = "IZX" -> amIZX(b, in)
      [] mode = "IZY" -> amIZY(b, in)
(* Instructions: the bus after the instruction body.  The byte each body   *)
(* returns is opReturn below.                                              *)

\* the pair of setFlag calls that close most instructions: Z from v == 0,
\* N from bit 7 of v
setZN(b, v) == cpuSetFlag(cpuSetFlag(b, StatusFlagZ, v = 0), StatusFlagN, v >= 128)

\* the body the eight branch instructions share
branch(b, taken) ==
    IF taken
    THEN LET abs == Word(b.Cpu.Pc + b.Cpu.AddrRel)
         IN  [b EXCEPT !.Cpu.Cycles = Byte(@ + (IF pageCrossed(abs, b.Cpu.Pc) THEN 2 ELSE 1)),
                       !.Cpu.AddrAbs = abs,
                       !.Cpu.Pc = abs]
    ELSE b

opADC(b0, in) ==
    LET add(b, result) ==
            LET a == b.Cpu.A \div 128
                m == b.Cpu.Fetched \div 128
                r == Byte(result) \div 128
            IN  [cpuSetFlag(cpuSetFlag(cpuSetFlag(cpuSetFlag(b,
                     StatusFlagC, result > 255),
                     StatusFlagZ, Byte(result) = 0),
                     StatusFlagN, Byte(result) >= 128),
                     StatusFlagV, a = m /\ a # r)
                 EXCEPT !.Cpu.A = Byte(result)]
        body(b) == add(b, b.Cpu.A + b.Cpu.Fetched + cpuGetFlag(b, StatusFlagC))
    IN  body(fetch(b0, in))

opAND(b0, in) ==
    LET result(b, a) == setZN([b EXCEPT !.Cpu.A = a], a)
        body(b) == result(b, And8(b.Cpu.A, b.Cpu.Fetched))
    IN  body(fetch(b0, in))

opASL(b0, in) ==
    LET flags(b2, result) ==
            cpuSetFlag(cpuSetFlag(b2, StatusFlagZ, b2.Cpu.A = 0),
                       StatusFlagN, result >= 128)
        store(b1, result) ==
            flags(IF b1.Cpu.isImpliedAddr THEN [b1 EXCEPT !.Cpu.A = result]
                  ELSE write(b1, b1.Cpu.AddrAbs, result),
                  result)
        body(b) == store(cpuSetFlag(b, StatusFlagC, b.Cpu.Fetched >= 128),
                         Byte(b.Cpu.Fetched * 2))
    IN  body(fetch(b0, in))

opBCC(b, in) == branch(b, cpuGetFlag(b, StatusFlagC) = 0)
opBCS(b, in) == branch(b, cpuGetFlag(b, StatusFlagC) # 0)
opBEQ(b, in) == branch(b, cpuGetFlag(b, StatusFlagZ) # 0)
opBMI(b, in) == branch(b, cpuGetFlag(b, StatusFlagN) # 0)
opBNE(b, in) == branch(b, cpuGetFlag(b, StatusFlagZ) = 0)
opBPL(b, in) == branch(b, cpuGetFlag(b, StatusFlagN) = 0)
opBVC(b, in) == branch(b, cpuGetFlag(b, StatusFlagV) = 0)
opBVS(b, in) == branch(b, cpuGetFlag(b, StatusFlagV) > 0)

opBIT(b0, in) ==
    LET body(b) ==
            cpuSetFlag(cpuSetFlag(cpuSetFlag(b,
                StatusFlagZ, And8(b.Cpu.Fetched, b.Cpu.A) = 0),
                StatusFlagV, Bit(b.Cpu.Fetched, 6) = 1),
                StatusFlagN, b.Cpu.Fetched >= 128)
    IN  body(fetch(b0, in))

\* opBRK that also sets the I flag
opBRK_maskIrq(b, in) ==
    LET pushStatus(c) == stackPush(c, setFlag(c.Cpu.Status, StatusFlagB))
        loadVector(c) ==
            cpuSetFlag(cpuSetFlag(
                [c EXCEPT !.Cpu.Pc = readWord(c, irqVectAddr, in.vecLo, in.vecHi)],
                StatusFlagB, TRUE), StatusFlagI, TRUE)
    IN  loadVector(pushStatus(
            stackPush(stackPush(b, b.Cpu.Pc \div 256), b.Cpu.Pc % 256)))

opBRK(b, in) ==
    LET pushStatus(c) == stackPush(c, setFlag(c.Cpu.Status, StatusFlagB))
        loadVector(c) ==
            cpuSetFlag([c EXCEPT !.Cpu.Pc = readWord(c, irqVectAddr, in.vecLo, in.vecHi)],
                       StatusFlagB, TRUE)
    IN  loadVector(pushStatus(
            stackPush(stackPush(b, b.Cpu.Pc \div 256), b.Cpu.Pc % 256)))

\* opCLC that clears the decimal flag as well
opCLC_both(b, in) == cpuSetFlag(cpuSetFlag(b, StatusFlagC, FALSE), StatusFlagD, FALSE)

opCLC(b, in) == cpuSetFlag(b, StatusFlagC, FALSE)
opCLD(b, in) == cpuSetFlag(b, StatusFlagD, FALSE)
opCLI(b, in) == cpuSetFlag(b, StatusFlagI, FALSE)
opCLV(b, in) == cpuSetFlag(b, StatusFlagV, FALSE)

\* the body CMP, CPX and CPY share, on the register compared
compare(b0, in, reg) ==
    LET flags(b, v) ==
            cpuSetFlag(cpuSetFlag(cpuSetFlag(b,
                StatusFlagC, v >= b.Cpu.Fetched),
                StatusFlagZ, v = b.Cpu.Fetched),
                StatusFlagN, Byte(v + 256 - b.Cpu.Fetched) >= 128)
        body(b) == flags(b, b.Cpu[reg])
    IN  body(fetch(b0, in))

opCMP(b, in) == compare(b, in, "A")
opCPX(b, in) == compare(b, in, "X")
opCPY(b, in) == compare(b, in, "Y")

opDEC(b0, in) ==
    LET store(b, v) == setZN(write([b EXCEPT !.Cpu.Fetched = v], b.Cpu.AddrAbs, v), v)
        body(b) == store(b, Byte(b.Cpu.Fetched + 255))
    IN  body(fetch(b0, in))

opDEX(b, in) == LET v == Byte(b.Cpu.X + 255) IN setZN([b EXCEPT !.Cpu.X = v], v)
opDEY(b, in) == LET v == Byte(b.Cpu.Y + 255) IN setZN([b EXCEPT !.Cpu.Y = v], v)

opEOR(b0, in) ==
    LET result(b, a) == setZN([b EXCEPT !.Cpu.A = a], a)
        body(b) == result(b, Xor8(b.Cpu.A, b.Cpu.Fetched))
    IN  body(fetch(b0, in))

opINC(b0, in) ==
    LET store(b, v) == setZN(write([b EXCEPT !.Cpu.Fetched = v], b.Cpu.AddrAbs, v), v)
        body(b) == store(b, Byte(b.Cpu.Fetched + 1))
    IN  body(fetch(b0, in))

opINX(b, in) == LET v == Byte(b.Cpu.X + 1) IN setZN([b EXCEPT !.Cpu.X = v], v)
opINY(b, in) == LET v == Byte(b.Cpu.Y + 1) IN setZN([b EXCEPT !.Cpu.Y = v], v)

opJMP(b, in) == [b EXCEPT !.Cpu.Pc = b.Cpu.AddrAbs]

opJSR(b, in) ==
    LET pc == Word(b.Cpu.Pc + 65535)
        b1 == stackPush(b, pc \div 256)
        b2 == stackPush(b1, pc % 256)
    IN  [b2 EXCEPT !.Cpu.Pc = b.Cpu.AddrAbs]

\* the body LDA, LDX and LDY share, on the register loaded
load(b0, in, reg) ==
    LET body(b) == setZN([b EXCEPT !.Cpu[reg] = b.Cpu.Fetched], b.Cpu.Fetched)
    IN  body(fetch(b0, in))

opLDA(b, in) == load(b, in, "A")
opLDX(b, in) == load(b, in, "X")
opLDY(b, in) == load(b, in, "Y")

\* the tail LSR, ROL and ROR share: Fetched becomes v, Z and N follow it,
\* and it goes to the accumulator or to memory
shiftResult(b, v) ==
    LET store(b1) ==
            IF b1.Cpu.isImpliedAddr THEN [b1 EXCEPT !.Cpu.A = v]
            ELSE write(b1, b1.Cpu.AddrAbs, v)
    IN  store(setZN([b EXCEPT !.Cpu.Fetched = v], v))

opLSR(b0, in) ==
    LET body(b) ==
            shiftResult(cpuSetFlag(b, StatusFlagC, b.Cpu.Fetched % 2 = 1),
                        b.Cpu.Fetched \div 2)
    IN  body(fetch(b0, in))

opNOP(b, in) == b

opORA(b0, in) ==
    LET result(b, a) == setZN([b EXCEPT !.Cpu.A = a], a)
        body(b) == result(b, Or8(b.Cpu.A, b.Cpu.Fetched))
    IN  body(fetch(b0, in))

opPHA(b, in) == stackPush(b, b.Cpu.A)

\* opPHP that pushes the status register as it is
opPHP_plain(b, in) == stackPush(b, b.Cpu.Status)

opPHP(b, in) == stackPush(b, setFlag(b.Cpu.Status, StatusFlagB))

opPLA(b, in) ==
    LET pulled(r) == setZN([r.bus EXCEPT !.Cpu.A = r.data], r.data)
    IN  pulled(stackPop(b))

\* PLP that takes the byte pulled as it is
opPLP_raw(b, in) ==
    LET pulled(r) == [r.bus EXCEPT !.Cpu.Status = r.data]
    IN  pulled(stackPop(b))

opPLP(b, in) ==
    LET bFlag == cpuGetFlag(b, StatusFlagB) > 0
        pulled(r) ==
            cpuSetFlag(cpuSetFlag([r.bus EXCEPT !.Cpu.Status = r.data],
                                  StatusFlagB, bFlag),
                       StatusFlagX, TRUE)
    IN  pulled(stackPop(b))

opROL(b0, in) ==
    LET body(b) ==
            shiftResult(cpuSetFlag(b, StatusFlagC, b.Cpu.Fetched >= 128),
                        Or8(Byte(b.Cpu.Fetched * 2), cpuGetFlag(b, StatusFlagC)))
    IN  body(fetch(b0, in))

opROR(b0, in) ==
    LET body(b) ==
            shiftResult(cpuSetFlag(b, StatusFlagC, b.Cpu.Fetched % 2 = 1),
                        Or8(b.Cpu.Fetched \div 2,
                            Byte(cpuGetFlag(b, StatusFlagC) * 128)))
    IN  body(fetch(b0, in))

\* RTI that takes the status byte pulled as it is
opRTI_raw(b, in) ==
    LET pullHi(lo, hi) == [hi.bus EXCEPT !.Cpu.Pc = hi.data * 256 + lo.data]
        pullLo(lo) == pullHi(lo, stackPop(lo.bus))
    IN  pullLo(stackPop(opPLP_raw(b, in)))

opRTI(b, in) ==
    LET pullHi(lo, hi) == [hi.bus EXCEPT !.Cpu.Pc = hi.data * 256 + lo.data]
        pullLo(lo) == pullHi(lo, stackPop(lo.bus))
    IN  pullLo(stackPop(opPLP(b, in)))

\* RTS that does not step over the address pulled
opRTS_same(b, in) ==
    LET pullHi(lo, hi) == [hi.bus EXCEPT !.Cpu.Pc = hi.data * 256 + lo.data]
        pullLo(lo) == pullHi(lo, stackPop(lo.bus))
    IN  pullLo(stackPop(b))

opRTS(b, in) ==
    LET pullHi(lo, hi) == [hi.bus EXCEPT !.Cpu.Pc = Word(hi.data * 256 + lo.data + 1)]
        pullLo(lo) == pullHi(lo, stackPop(lo.bus))
    IN  pullLo(stackPop(b))

\* SBC that adds the operand as it is
opSBC_plain(b0, in) == opADC(b0, in)

opSBC(b0, in) ==
    LET add(b, result) ==
            LET a == b.Cpu.A \div 128
                m == b.Cpu.Fetched \div 128
                r == Byte(result) \div 128
            IN  [cpuSetFlag(cpuSetFlag(cpuSetFlag(cpuSetFlag(b,
                     StatusFlagC, result > 255),
                     StatusFlagZ, Byte(result) = 0),
                     StatusFlagN, Byte(result) >= 128),
                     StatusFlagV, a # m /\ m = r)
                 EXCEPT !.Cpu.A = Byte(result)]
        body(b) == add(b, b.Cpu.A + (255 - b.Cpu.Fetched) + cpuGetFlag(b, StatusFlagC))
    IN  body(fetch(b0, in))

opSEC(b, in) == cpuSetFlag(b, StatusFlagC, TRUE)
opSED(b, in) == cpuSetFlag(b, StatusFlagD, TRUE)
opSEI(b, in) == cpuSetFlag(b, StatusFlagI, TRUE)

opSTA(b, in) == write(b, b.Cpu.AddrAbs, b.Cpu.A)
opSTX(b, in) == write(b, b.Cpu.AddrAbs, b.Cpu.X)
opSTY(b, in) == write(b, b.Cpu.AddrAbs, b.Cpu.Y)

opTAX(b, in) == setZN([b EXCEPT !.Cpu.X = b.Cpu.A], b.Cpu.A)
opTAY(b, in) == setZN([b EXCEPT !.Cpu.Y = b.Cpu.A], b.Cpu.A)
opTSX(b, in) == setZN([b EXCEPT !.Cpu.X = b.Cpu.Sp], b.Cpu.Sp)
opTXA(b, in) == setZN([b EXCEPT !.Cpu.A = b.Cpu.X], b.Cpu.X)
opTXS(b, in) == [b EXCEPT !.Cpu.Sp = b.Cpu.X]
opTYA(b, in) == setZN([b EXCEPT !.Cpu.A = b.Cpu.Y], b.Cpu.Y)

opXXX(b, in) == b

\* inst.Execute(): the bus after the instruction named
Execute(name, b, in) ==
    CASE name = "ADC" -> opADC(b, in) [] name = "AND" -> opAND(b, in)
      [] name = "ASL" -> opASL(b, in) [] name = "BCC" -> opBCC(b, in)
      [] name = "BCS" -> opBCS(b, in) [] name = "BEQ" -> opBEQ(b, in)
      [] name = "BIT" -> opBIT(b, in) [] name = "BMI" -> opBMI(b, in)
      [] name = "BNE" -> opBNE(b, in) [] name = "BPL" -> opBPL(b, in)
      [] name = "BRK" -> opBRK(b, in) [] name = "BVC" -> opBVC(b, in)
      [] name = "BVS" -> opBVS(b, in) [] name = "CLC" -> opCLC(b, in)
      [] name = "CLD" -> opCLD(b, in) [] name = "CLI" -> opCLI(b, in)
      [] name = "CLV" -> opCLV(b, in) [] name = "CMP" -> opCMP(b, in)
      [] name = "CPX" -> opCPX(b, in) [] name = "CPY" -> opCPY(b, in)
      [] name = "DEC" -> opDEC(b, in) [] name = "DEX" -> opDEX(b, in)
      [] name = "DEY" -> opDEY(b, in) [] name = "EOR" -> opEOR(b, in)
      [] name = "INC" -> opINC(b, in) [] name = "INX" -> opINX(b, in)
      [] name = "INY" -> opINY(b, in) [] name = "JMP" -> opJMP(b, in)
      [] name = "JSR" -> opJSR(b, in) [] name = "LDA" -> opLDA(b, in)
      [] name = "LDX" -> opLDX(b, in) [] name = "LDY" -> opLDY(b, in)
      [] name = "LSR" -> opLSR(b, in) [] name = "NOP" -> opNOP(b, in)
      [] name = "ORA" -> opORA(b, in) [] name = "PHA" -> opPHA(b, in)
      [] name = "PHP" -> opPHP(b, in) [] name = "PLA" -> opPLA(b, in)
      [] name = "PLP" -> opPLP(b, in) [] name = "ROL" -> opROL(b, in)
      [] name = "ROR" -> opROR(b, in) [] name = "RTI" -> opRTI(b, in)
      [] name = "RTS" -> opRTS(b, in) [] name = "SBC" -> opSBC(b, in)
      [] name = "SEC" -> opSEC(b, in) [] name = "SED" -> opSED(b, in)
      [] name = "SEI" -> opSEI(b, in) [] name = "STA" -> opSTA(b, in)
      [] name = "STX" -> opSTX(b, in) [] name = "STY" -> opSTY(b, in)
      [] name = "TAX" -> opTAX(b, in) [] name = "TAY" -> opTAY(b, in)
      [] name = "TSX" -> opTSX(b, in) [] name = "TXA" -> opTXA(b, in)
      [] name = "TXS" -> opTXS(b, in) [] name = "TYA" -> opTYA(b, in)
      [] OTHER -> opXXX(b, in)

\* opReturn with every instruction body returning 1
opReturn_always(name) == 1

\* the byte the instruction body returns ("potential for extra cycle")
opReturn(name) ==
    IF name \in {"ADC", "AND", "CMP", "EOR", "LDA", "LDX", "LDY", "NOP", "ORA", "SBC"}
    THEN 1 ELSE 0

\* Cpu6502.Clock
Cpu_Clock(b, in) ==
    LET \* the instruction body, then the extra cycle both it and the
        \* addressing mode ask for
        operate(inst, am) ==
            [Execute(inst.Name, am.bus, in)
                EXCEPT !.Cpu.Cycles = Byte(@ + And8(am.extra, opReturn(inst.Name)))]
        address(opcode, inst) ==
            operate(inst,
                    AddrModeFns(inst.AddrMode,
                                [b EXCEPT !.Cpu.Opcode = opcode, !.Cpu.Pc = Word(@ + 1),
                                          !.Cpu.Cycles = inst.Cycles],
                                in))
        decode(opcode) == address(opcode, Inst(opcode))
        tick(c) ==
            [c EXCEPT !.Cpu.isImpliedAddr = FALSE,
                      !.Cpu.CycleCount = @ + 1,
                      !.Cpu.Cycles = Byte(@ + 255)]
    IN  tick(IF b.Cpu.Cycles = 0 THEN decode(read(b, b.Cpu.Pc, in.op)) ELSE b)

----------------------------------------------------------------------------
(* The bus clock and the OAM DMA.                                          *)

\* NewBus, with the cartridge main() inserts: two PRG chunks, one CHR chunk
NewBus ==
    [ Cpu |-> NewCpu6502, Ppu |-> NewPpu, Ram |-> EmptyMem,
      Cart |-> NewCart(2, 1),
      Controller |-> [i \in 0..1 |-> NewController], ControllerState |-> [i \in 0..1 |-> 0],
      ClockCount |-> 0,
      dmaPage |-> 0, dmaAddr |-> 0, dmaData |-> 0,
      dmaTransfer |-> FALSE, dmaNeedSync |-> TRUE ]

Bus_Reset(b, in) == [Cpu_Reset(b, in) EXCEPT !.ClockCount = 0]

\* initDmaTransfer with the synchronisation waiting for an even tick
initDmaTransfer_evenSync(b, in) ==
    LET latch(r) == [r.bus EXCEPT !.dmaData = r.data]
        done(b1) ==
            IF b1.dmaAddr = 0
            THEN [b1 EXCEPT !.dmaTransfer = FALSE, !.dmaNeedSync = TRUE]
            ELSE b1
    IN  IF b.dmaNeedSync
        THEN IF b.ClockCount % 2 = 0 THEN [b EXCEPT !.dmaNeedSync = FALSE] ELSE b
        ELSE IF b.ClockCount % 2 = 0
             THEN latch(CpuRead(b, b.dmaPage * 256 + b.dmaAddr, in.data))
             ELSE done([b EXCEPT !.Ppu.oam = oamWrite(@, b.dmaAddr, b.dmaData),
                                 !.dmaAddr = Byte(@ + 1)])

initDmaTransfer(b, in) ==
    LET latch(r) == [r.bus EXCEPT !.dmaData = r.data]
        done(b1) ==
            IF b1.dmaAddr = 0
            THEN [b1 EXCEPT !.dmaTransfer = FALSE, !.dmaNeedSync = TRUE]
            ELSE b1
    IN  IF b.dmaNeedSync
        THEN IF b.ClockCount % 2 = 1 THEN [b EXCEPT !.dmaNeedSync = FALSE] ELSE b
        ELSE IF b.ClockCount % 2 = 0
             THEN latch(CpuRead(b, b.dmaPage * 256 + b.dmaAddr, in.data))
             ELSE done([b EXCEPT !.Ppu.oam = oamWrite(@, b.dmaAddr, b.dmaData),
                                 !.dmaAddr = Byte(@ + 1)])

\* clockDevices with the CPU side clocked on every second tick
clockDevices_half(b, in) ==
    LET cpuSide(b1) ==
            IF b1.ClockCount % 2 = 0
            THEN IF b1.dmaTransfer THEN initDmaTransfer(b1, in) ELSE Cpu_Clock(b1, in)
            ELSE b1
    IN  cpuSide([b EXCEPT !.Ppu = Ppu_Clock(@)])

\* Bus.Clock, first half: the PPU is clocked, then on every third tick the
\* CPU or one step of the DMA
clockDevices(b, in) ==
    LET cpuSide(b1) ==
            IF b1.ClockCount % 3 = 0
            THEN IF b1.dmaTransfer THEN initDmaTransfer(b1, in) ELSE Cpu_Clock(b1, in)
            ELSE b1
    IN  cpuSide([b EXCEPT !.Ppu = Ppu_Clock(@)])

\* Bus.Clock that leaves the PPU's nmi edge raised
Bus_Clock_keepEdge(b, in) ==
    LET interrupts(b2) == IF b2.Ppu.nmi THEN Cpu_NMI(b2, in) ELSE b2
        count(b3) == [b3 EXCEPT !.ClockCount = @ + 1]
    IN  count(interrupts(clockDevices(b, in)))

\* Bus.Clock
Bus_Clock(b, in) ==
    LET interrupts(b2) ==
            IF b2.Ppu.nmi THEN Cpu_NMI([b2 EXCEPT !.Ppu.nmi = FALSE], in) ELSE b2
        count(b3) == [b3 EXCEPT !.ClockCount = @ + 1]
    IN  count(interrupts(clockDevices(b, in)))

----------------------------------------------------------------------------
(* Inputs.  The bytes of the cartridge are inputs of the machine: each     *)
(* instruction fetched from PRG-ROM is drawn from a menu.  An input names  *)
(* the opcode and operand bytes at PC, the bytes behind an indirect        *)
(* pointer, the byte a data read of the cartridge returns, and the vector  *)
(* an interrupt or reset loads.                                            *)

Instr(op, lo, hi) ==
    [ op |-> op, lo |-> lo, hi |-> hi, ptrLo |-> 0, ptrHi |-> 0, data |-> 0,
      vecLo |-> 0, vecHi |-> 192 ]

NOP == Instr(234, 0, 0)
LDAimm(v) == Instr(169, v, 0)
LDAabs(a) == Instr(173, a % 256, a \div 256)
STAabs(a) == Instr(141, a % 256, a \div 256)
\* JMP to the instruction that follows it: three cycles, nothing else
JMPnext(b) == Instr(76, Word(b.Cpu.Pc + 3) % 256, Word(b.Cpu.Pc + 3) \div 256)

\* the reset vector of every cartridge considered is $8000
ResetIn == [NOP EXCEPT !.vecHi = 128]

\* this Bus.Clock makes the CPU fetch and execute an instruction
Fetches(b) == b.ClockCount % 3 = 0 /\ ~b.dmaTransfer /\ b.Cpu.Cycles = 0

\* the index of the CPU-rate tick a master tick count belongs to
CpuTick(b) == b.ClockCount \div 3


\* instructions whose body calls cpu.fetch
FetchInstr ==
    { "ADC", "AND", "ASL", "BIT", "CMP", "CPX", "CPY", "DEC", "EOR", "INC", "LDA",
      "LDX", "LDY", "LSR", "ORA", "ROL", "ROR", "SBC" }

StoreInstr == { "STA", "STX", "STY" }

\* the Bus.Clock from pre to post executed an instruction whose data read
\* went to PPUSTATUS (0x2002 or a mirror)
StatusRead(pre, post) ==
    /\ Fetches(pre)
    /\ InstName[post.Cpu.Opcode + 1] \in FetchInstr
    /\ InstAddrMode[post.Cpu.Opcode + 1] \notin {"IMP", "IMM"}
    /\ post.Cpu.AddrAbs >= ppuMinAddr /\ post.Cpu.AddrAbs <= ppuMaxAddr
    /\ post.Cpu.AddrAbs % 8 = 2

\* the PPU port (0..7) a store executed in the Bus.Clock from pre to post
\* wrote, or -1
PortWrite(pre, post) ==
    IF /\ Fetches(pre)
       /\ InstName[post.Cpu.Opcode + 1] \in StoreInstr
       /\ post.Cpu.AddrAbs >= ppuMinAddr /\ post.Cpu.AddrAbs <= ppuMaxAddr
    THEN post.Cpu.AddrAbs % 8
    ELSE -1

\* the PPU is at (scanline, cycle)
PpuAt(p, scanline, cycle) == p.scanline = scanline /\ p.cycle = cycle

----------------------------------------------------------------------------
(* The specification: the machine from construction, reset once as main()  *)
(* does, then clocked.  obs remembers the step just taken: the bus before  *)
(* it, its input, and a few tallies the properties below are stated on.    *)

MaxClock == 89010
WindowStart == 81585
WindowLen == 24
MaxOps == 2

NewObs ==
    [ kind |-> "New", prev |-> NewBus, in |-> NOP, pending |-> 0, nmi |-> FALSE,
      nmis |-> 0, vbl |-> "before", ops |-> 0,
      stall |-> 0, dmaOdd |-> FALSE, dmaDone |-> FALSE,
      count |-> 0, tail |-> 0, exec |-> FALSE, elapsed |-> 0, expect |-> 0,
      gap |-> 0, due |-> 0,
      statusRead |-> FALSE, midStatus |-> 0, portWrite |-> -1, afterRead |-> FALSE,
      fresh |-> FALSE, readAddr |-> 0, readLatch |-> 0, readData |-> 0 ]

\* obs after a Bus.Clock that took the bus from pre to post on input in
Observe(o, pre, in, post) ==
    LET newFrame == post.Ppu.frames # pre.Ppu.frames
        cpuRate == pre.ClockCount % 3 = 0
        clocked == post.Cpu.CycleCount # pre.Cpu.CycleCount
        started == ~pre.dmaTransfer /\ post.dmaTransfer
        record(pending, nmi, statusRead, portWrite) ==
            [o EXCEPT
              !.kind = "Clock", !.prev = pre, !.in = in,
              !.pending = pending,
              !.nmi = nmi,
              !.nmis = IF newFrame THEN 0 ELSE o.nmis + (IF nmi THEN 1 ELSE 0),
              !.vbl = IF newFrame THEN "before"
                      ELSE IF PpuAt(pre.Ppu, 241, 1)
                           THEN IF getFlag(pre.Ppu.ppuCtrl, ctrlNmi) = 1
                                THEN "enabled" ELSE "disabled"
                           ELSE o.vbl,
              !.ops = IF Fetches(pre) /\ in.op # NOP.op /\ pre.Cpu.Pc > 32770
                      THEN o.ops + 1 ELSE o.ops,
              !.stall = IF started THEN 0
                        ELSE IF pre.dmaTransfer /\ cpuRate /\ ~clocked THEN o.stall + 1
                        ELSE o.stall,
              !.dmaOdd = IF started THEN CpuTick(pre) % 2 = 1 ELSE o.dmaOdd,
              !.dmaDone = pre.dmaTransfer /\ ~post.dmaTransfer,
              !.statusRead = statusRead,
              !.midStatus = Ppu_Clock(pre.Ppu).ppuStatus,
              !.portWrite = portWrite,
              !.afterRead = IF statusRead THEN TRUE
                            ELSE IF portWrite \in {5, 6} THEN FALSE ELSE @,
              !.fresh = portWrite \in {5, 6} /\ o.afterRead,
              !.readAddr = IF statusRead THEN post.Cpu.AddrAbs ELSE @,
              !.readLatch = IF statusRead THEN pre.Ppu.addrLatch ELSE @,
              !.readData = IF statusRead THEN post.Cpu.Fetched ELSE @ ]
        \* mid: the bus after the devices were clocked, before the NMI test
        from(mid) ==
            record(mid.Cpu.Cycles,
                   /\ post.Cpu.Cycles = 8
                   /\ post.Cpu.Sp = Byte(mid.Cpu.Sp + 253)
                   /\ post.Cpu.Pc = in.vecHi * 256 + in.vecLo,
                   StatusRead(pre, post),
                   PortWrite(pre, post))
    IN  from(clockDevices(pre, in))

Init == nes = NewBus /\ obs = NewObs

\* main(): nesEmulator.Cpu.Reset(), once, before the machine runs
Reset ==
    /\ obs.kind = "New"
    /\ nes' = Cpu_Reset(nes, ResetIn)
    /\ obs' = [obs EXCEPT !.kind = "Reset", !.prev = nes, !.in = ResetIn]

\* the button states a controller may show after Bus.Run polled the keyboard
Buttons == {NewController}

\* Bus.Run between two frames: the controllers are polled and the PPU's
\* frameComplete is lowered, which lets the clock loop run again
NextFrame ==
    /\ obs.kind # "New"
    /\ nes.Ppu.frameComplete
    /\ \E keys \in [0..1 -> Buttons] :
          nes' = [nes EXCEPT !.Controller = keys, !.Ppu.frameComplete = FALSE]
    /\ obs' = [obs EXCEPT !.kind = "Frame", !.prev = nes]

\* the instructions the cartridge may hold where the CPU fetches next:
\* a load and a store to PPUCTRL at the reset vector, a NOP sled after it,
\* and shortly before the first V-blank a window of stores and jumps
Menu ==
    IF ~(Fetches(nes) /\ nes.Cpu.Pc >= cartMinAddr) THEN {NOP}
    ELSE IF nes.Cpu.Pc = 32768 THEN {LDAimm(0), LDAimm(128), LDAimm(2)}
    ELSE IF nes.Cpu.Pc = 32770 THEN {STAabs(8192)}
    ELSE IF /\ nes.ClockCount >= WindowStart
            /\ nes.ClockCount < WindowStart + WindowLen
            /\ obs.ops < MaxOps
         THEN {NOP, JMPnext(nes), STAabs(512), STAabs(dmaAddr)}
    ELSE {NOP}

\* Bus.Clock, as Bus.Run calls it
Clock ==
    /\ obs.kind # "New"
    /\ ~nes.Ppu.frameComplete
    /\ nes.ClockCount < MaxClock
    /\ \E in \in Menu :
          /\ nes' = Bus_Clock(nes, in)
          /\ obs' = Observe(obs, nes, in, nes')

Next == Reset \/ NextFrame \/ Clock

Spec == Init /\ [][Next]_vars
----------------------------------------------------------------------------
(* Properties of the bus clock, the NMI and the OAM DMA (Spec).            *)

FrameDots == 262 * 341

\* the PPU's position as a dot count within the frame
PpuDot(p) == (p.scanline + 1) * 341 + p.cycle

CpuRegs(b) ==
    << b.Cpu.Pc, b.Cpu.Sp, b.Cpu.A, b.Cpu.X, b.Cpu.Y, b.Cpu.Status, b.Cpu.Cycles >>

DmaRegs(b) == << b.dmaPage, b.dmaAddr, b.dmaData, b.dmaTransfer, b.dmaNeedSync >>

StackPage(b) == [a \in 256..511 |-> MemRead(b.Ram, a)]

\* C1: every Bus.Clock clocks the PPU exactly once, during a DMA transfer
\* too: the PPU moves on by one dot (two where the odd frame skips).  The
\* CPU is clocked, or one DMA step is run in its place, exactly on the
\* ticks whose count is a multiple of three: the CPU's cycle count grows by
\* one on those ticks outside a transfer and never otherwise, the DMA
\* address moves by at most one on those ticks inside a transfer, and on
\* the other ticks neither the cycle count nor the DMA registers change.
C1_ClockRatio ==
    obs.kind = "Clock" =>
        LET pre == obs.prev
            skip == IF PpuAt(pre.Ppu, 0, 0) /\ pre.Ppu.frames % 2 = 1 THEN 1 ELSE 0
            cpuRate == pre.ClockCount % 3 = 0
        IN  /\ nes.ClockCount = pre.ClockCount + 1
            /\ PpuDot(nes.Ppu) = (PpuDot(pre.Ppu) + 1 + skip) % FrameDots
            /\ nes.Cpu.CycleCount =
                   pre.Cpu.CycleCount + (IF cpuRate /\ ~pre.dmaTransfer THEN 1 ELSE 0)
            /\ cpuRate /\ pre.dmaTransfer =>
                   /\ nes.dmaAddr \in {pre.dmaAddr, Byte(pre.dmaAddr + 1)}
                   /\ nes.dmaPage = pre.dmaPage
            /\ ~cpuRate => DmaRegs(nes) = DmaRegs(pre)

\* a DMA step taken while the PPU is drawing: the PPU still moved
C1_Witness ==
    /\ obs.kind = "Clock"
    /\ obs.prev.dmaTransfer /\ obs.prev.ClockCount % 3 = 0
    /\ nes.dmaAddr = Byte(obs.prev.dmaAddr + 1)
    /\ PpuDot(nes.Ppu) = PpuDot(obs.prev.Ppu) + 1

\* C3: when PPUCTRL's nmi-enable bit is set as the PPU passes (241, 1),
\* Cpu6502.NMI is invoked exactly once in that frame (none before that dot,
\* one from it to the end of the frame), and the PPU's nmi edge is false
\* at the end of every Bus.Clock, the one that delivered it included.
C3_NmiOnce ==
    /\ obs.vbl = "enabled" => obs.nmis = 1
    /\ obs.vbl = "before" => obs.nmis = 0
    /\ obs.kind = "Clock" => ~nes.Ppu.nmi

\* the Bus.Clock at (241, 1) with the bit set has invoked the NMI
C3_Witness ==
    /\ obs.kind = "Clock" /\ PpuAt(obs.prev.Ppu, 241, 1)
    /\ getFlag(obs.prev.Ppu.ppuCtrl, ctrlNmi) = 1
    /\ obs.nmi /\ obs.nmis = 1 /\ ~nes.Ppu.nmi

\* C4: an NMI raised while the CPU's remaining-cycles counter is not zero
\* is not serviced until the counter reaches zero: whenever Cpu6502.NMI is
\* invoked, the counter it finds is zero.
C4_NmiAtBoundary == obs.nmi => obs.pending = 0

\* C5: after a write to 0x4014 the CPU is not clocked for exactly 513 or
\* 514 consecutive CPU-rate ticks, 514 exactly when the write that starts
\* the transfer is executed on an odd CPU-rate tick; the transfer ends with
\* dmaTransfer false and dmaNeedSync set again, and outside a transfer
\* every CPU-rate tick clocks the CPU, so the CPU resumes on the next one.
C5_DmaStall ==
    /\ obs.stall <= 514
    /\ obs.dmaDone =>
           /\ obs.stall \in {513, 514}
           /\ obs.stall = 514 <=> obs.dmaOdd
           /\ ~nes.dmaTransfer /\ nes.dmaNeedSync
    /\ (obs.kind = "Clock" /\ obs.prev.dmaTransfer) =>
           nes.Cpu.CycleCount = obs.prev.Cpu.CycleCount
    /\ (obs.kind = "Clock" /\ ~obs.prev.dmaTransfer /\ obs.prev.ClockCount % 3 = 0) =>
           nes.Cpu.CycleCount = obs.prev.Cpu.CycleCount + 1

\* a transfer started on an odd CPU-rate tick has just completed
C5_Witness == obs.dmaDone /\ obs.dmaOdd /\ obs.stall = 514

\* a transfer started on an even CPU-rate tick has just completed
C5_WitnessEven == obs.dmaDone /\ ~obs.dmaOdd /\ obs.stall = 513

\* C6: writing P to 0x4014 copies CPU memory 0xP00..0xPFF into OAM starting
\* at OAMADDR: when the transfer completes, OAM[(OAMADDR + i) mod 256] is
\* the byte at (P << 8) | i for every i.  Stated for a page of work RAM
\* and OAMADDR = 0 (port 0x2003 is never written).
C6_DmaCopies ==
    (obs.dmaDone /\ nes.dmaPage * 256 <= ramMaxAddr) =>
        \A i \in 0..255 :
            oamRead(nes.Ppu.oam, i) =
                MemRead(nes.Ram, (nes.dmaPage * 256 + i) % (ramMirror + 1))

\* C7: the CPU is suspended for the whole transfer: in every Bus.Clock
\* taken while a transfer is in progress no CPU register, nor the
\* remaining-cycles counter, nor a byte of the stack page changes, an NMI
\* edge raised by the PPU during the transfer included.
C7_CpuSuspended ==
    (obs.kind = "Clock" /\ obs.prev.dmaTransfer) =>
        /\ CpuRegs(nes) = CpuRegs(obs.prev)
        /\ StackPage(nes) = StackPage(obs.prev)
----------------------------------------------------------------------------
(* The CPU alone (SpecCpu): reset, then Cpu6502.Clock called tick by tick. *)
(* The program is up to MaxSetup instructions that prepare registers,      *)
(* flags and a zero-page pointer, then one instruction of any opcode and   *)
(* operand bytes drawn from OperandLo and OperandHi, then whatever follows.*)

MaxSetup == 2
OperandLo == {16, 128, 240}
OperandHi == {0, 2}

\* DEC $10, DEY, DEX, BIT $10, SEC
SetupMenu ==
    { Instr(198, 16, 0), Instr(136, 0, 0), Instr(202, 0, 0), Instr(36, 16, 0),
      Instr(56, 0, 0) }

FullMenu == { Instr(op, lo, hi) : op \in 0..255, lo \in OperandLo, hi \in OperandHi }

\* instructions that only read their operand
ReadInstr ==
    { "ADC", "AND", "BIT", "CMP", "CPX", "CPY", "EOR", "LDA", "LDX", "LDY",
      "ORA", "SBC", "NOP" }

\* the branch named is taken under the status byte
BranchTaken(name, status) ==
    CASE name = "BCC" -> Bit(status, 0) = 0
      [] name = "BCS" -> Bit(status, 0) = 1
      [] name = "BNE" -> Bit(status, 1) = 0
      [] name = "BEQ" -> Bit(status, 1) = 1
      [] name = "BVC" -> Bit(status, 6) = 0
      [] name = "BVS" -> Bit(status, 6) = 1
      [] name = "BPL" -> Bit(status, 7) = 0
      [] name = "BMI" -> Bit(status, 7) = 1
      [] OTHER -> FALSE

\* the number of ticks the instruction at pre's PC is to take: the table's
\* base count, one more for a page cross of a read instruction in
\* absolute,X / absolute,Y / (indirect),Y, one more for a branch taken and
\* one more if the branch lands (post's PC) on another page
ExpectedN(pre, in, post) ==
    LET pc == pre.Cpu.Pc
        opcode == read(pre, pc, in.op)
        name == InstName[opcode + 1]
        mode == InstAddrMode[opcode + 1]
        lo == read(pre, Word(pc + 1), in.lo)
        hi == read(pre, Word(pc + 2), in.hi)
        pointer == MemRead(pre.Ram, Byte(lo + 1)) * 256 + MemRead(pre.Ram, lo)
        base == IF mode = "IZY" THEN pointer ELSE hi * 256 + lo
        index == IF mode = "ABX" THEN pre.Cpu.X ELSE pre.Cpu.Y
        cross == (Word(base + index) \div 256) # (base \div 256)
        pagePenalty == IF mode \in {"ABX", "ABY", "IZY"} /\ name \in ReadInstr /\ cross
                       THEN 1 ELSE 0
        next == Word(pc + 2)
        branchPenalty == IF BranchTaken(name, pre.Cpu.Status)
                         THEN IF (post.Cpu.Pc \div 256) # (next \div 256) THEN 2 ELSE 1
                         ELSE 0
    IN  InstCycles[opcode + 1] + pagePenalty + branchPenalty

\* obs after a Cpu6502.Clock that took the bus from pre to post
ObserveCpu(o, pre, in, post) ==
    LET exec == pre.Cpu.Cycles = 0
    IN  [o EXCEPT
          !.kind = "CpuClock", !.prev = pre, !.exec = exec,
          !.count = IF exec THEN @ + 1 ELSE @,
          !.tail = IF ~exec THEN @
                   ELSE IF @ = 0 /\ in \in SetupMenu /\ o.count < MaxSetup THEN 0
                   ELSE IF @ = 0 THEN 1 ELSE 2,
          !.gap = IF exec THEN o.elapsed ELSE @,
          !.due = IF exec THEN o.expect ELSE @,
          !.expect = IF exec THEN ExpectedN(pre, in, post) ELSE @,
          !.elapsed = IF exec THEN 1 ELSE @ + 1 ]

CpuMenu ==
    IF nes.Cpu.Cycles # 0 \/ nes.Cpu.Pc < cartMinAddr \/ obs.tail # 0 THEN {NOP}
    ELSE IF obs.count < MaxSetup THEN SetupMenu \cup FullMenu
    ELSE FullMenu

\* Cpu6502.Clock.  An instruction is fetched only where the read of its
\* bytes has no effect on the PPU or the controllers.
CpuClock ==
    /\ obs.kind # "New"
    /\ ~(obs.tail = 2 /\ nes.Cpu.Cycles = 0)
    /\ nes.Cpu.Cycles = 0 =>
           /\ ~ReadHasEffect(nes.Cpu.Pc) /\ ~ReadHasEffect(Word(nes.Cpu.Pc + 2))
           /\ nes.Cpu.Pc < 65534
    /\ \E in \in CpuMenu :
          /\ nes' = Cpu_Clock(nes, in)
          /\ obs' = ObserveCpu(obs, nes, in, nes')

NextCpu == Reset \/ CpuClock

SpecCpu == Init /\ [][NextCpu]_vars

----------------------------------------------------------------------------
(* Two frames of the PPU (SpecPpu).  The cartridge sets PPUMASK at the     *)
(* reset vector (rendering off, or the background shown) and holds a NOP   *)
(* sled; around the first V-blank a window of the sled may hold reads of   *)
(* PPUSTATUS and writes of PPUSCROLL / PPUADDR.  The runs that touch the   *)
(* ports are followed until the window is well past, the others through   *)
(* the second frame.                                                       *)

MaxFrameClock == 179000
MaxPortClock == 82600
PortStart == 82167
PortLen == 42
MaxPortOps == 3

MenuPpu ==
    IF ~(Fetches(nes) /\ nes.Cpu.Pc >= cartMinAddr) THEN {NOP}
    ELSE IF nes.Cpu.Pc = 32768 THEN {LDAimm(0), LDAimm(8)}
    ELSE IF nes.Cpu.Pc = 32770 THEN {STAabs(8193)}
    ELSE IF /\ nes.ClockCount >= PortStart
            /\ nes.ClockCount < PortStart + PortLen
            /\ obs.ops < MaxPortOps
         THEN {NOP, LDAabs(8194), LDAabs(16378), STAabs(8197), STAabs(8198)}
              \cup (IF obs.ops = 0 THEN {JMPnext(nes)} ELSE {})
    ELSE {NOP}

ClockPpu ==
    /\ obs.kind # "New"
    /\ ~nes.Ppu.frameComplete
    /\ nes.ClockCount < (IF obs.ops > 0 THEN MaxPortClock ELSE MaxFrameClock)
    /\ \E in \in MenuPpu :
          /\ nes' = Bus_Clock(nes, in)
          /\ obs' = Observe(obs, nes, in, nes')

NextPpu == Reset \/ NextFrame \/ ClockPpu

SpecPpu == Init /\ [][NextPpu]_vars

VBlank(b) == getFlag(b.Ppu.ppuStatus, statusVBlank) = 1

\* C8: the scanline stays in -1..260 and the cycle in 0..340, and a frame
\* is 262 scanlines of 341 clocks: each Bus.Clock moves the PPU one dot on,
\* wrapping after 262 * 341, except that exactly one dot is skipped at
\* (0, 0) of an odd frame, and only when rendering is enabled.
C8_FrameShape ==
    /\ nes.Ppu.scanline \in -1..260
    /\ nes.Ppu.cycle \in 0..340
    /\ obs.kind = "Clock" =>
           LET pre == obs.prev
               skip == IF /\ PpuAt(pre.Ppu, 0, 0) /\ pre.Ppu.frames % 2 = 1
                          /\ shouldRender(pre.Ppu)
                       THEN 1 ELSE 0
           IN  PpuDot(nes.Ppu) = (PpuDot(pre.Ppu) + 1 + skip) % FrameDots

\* C9: the V-blank flag is set at (241, 1), cleared at (-1, 1), and
\* otherwise changes only when a read of PPUSTATUS clears it; hence it is
\* clear whenever the scanline is in 0..240.
C9_VBlankFlag ==
    /\ obs.kind = "Clock" =>
           /\ (PpuAt(obs.prev.Ppu, 241, 1) /\ ~obs.statusRead) => VBlank(nes)
           /\ PpuAt(obs.prev.Ppu, -1, 1) => ~VBlank(nes)
           /\ VBlank(nes) # VBlank(obs.prev) =>
                  \/ PpuAt(obs.prev.Ppu, 241, 1)
                  \/ PpuAt(obs.prev.Ppu, -1, 1)
                  \/ obs.statusRead /\ ~VBlank(nes)
    /\ nes.Ppu.scanline \in 0..240 => ~VBlank(nes)

\* the flag the PPU set at (241, 1) is cleared by the PPU at (-1, 1)
C9_Witness ==
    /\ obs.kind = "Clock" /\ PpuAt(obs.prev.Ppu, -1, 1)
    /\ VBlank(obs.prev) /\ ~VBlank(nes)

\* C10: a CPU read of PPUSTATUS (0x2002 or a mirror, every 8 bytes up to
\* 0x3FFF) returns the top three bits of the status register, clears the
\* V-blank flag and nothing else of the register, and resets the write
\* toggle, so that the next write to PPUSCROLL or PPUADDR is a first write
\* (it sets the toggle and leaves the VRAM address alone).
C10_StatusRead ==
    /\ (obs.kind = "Clock" /\ obs.statusRead /\ InstName[nes.Cpu.Opcode + 1] = "LDA") =>
           /\ nes.Cpu.A = (obs.midStatus \div 32) * 32
           /\ nes.Ppu.ppuStatus = obs.midStatus % 128
           /\ nes.Ppu.addrLatch = 0
    /\ (obs.kind = "Clock" /\ obs.portWrite \in {5, 6} /\ obs.fresh) =>
           /\ nes.Ppu.addrLatch = 1
           /\ nes.Ppu.vRam = Ppu_Clock(obs.prev.Ppu).vRam

\* a read through the mirror at 0x3FFA found the V-blank flag set and the
\* toggle set, and the write to PPUADDR that followed was a first write
C10_Witness ==
    /\ obs.kind = "Clock" /\ obs.portWrite = 6 /\ obs.fresh
    /\ obs.readAddr = 16378 /\ obs.readLatch = 1 /\ obs.readData = 128
    /\ nes.Ppu.addrLatch = 1
\* the dot after (0, 0) of an odd frame was skipped while rendering was on
C8_WitnessSkip ==
    /\ obs.kind = "Clock" /\ PpuAt(obs.prev.Ppu, 0, 0) /\ obs.prev.Ppu.frames = 1
    /\ shouldRender(obs.prev.Ppu) /\ PpuAt(nes.Ppu, 0, 2)
----------------------------------------------------------------------------
(* The PPU ports alone (SpecPort): after reset the CPU side of the bus     *)
(* stores to and loads from the PPU ports, in any order, through           *)
(* Bus.CpuWrite and Bus.CpuRead.  Rendering stays off.  obs follows the    *)
(* PPUADDR protocol on its own: phase is "high" after a first write to     *)
(* PPUADDR, "set" after the second write that directly follows it, and     *)
(* expect is the address the next PPUDATA access is to use.                *)

MaxPortSeq == 7
AddrBytes == {32, 255}
DataBytes == {1, 2}
CtrlBytes == {0, 4}
ScrollBytes == {9}
ChrBytes == {7}

NewPortObs ==
    [ kind |-> "New", prev |-> NewBus, in |-> NOP, ops |-> 0,
      port |-> -1, data |-> 0, phase |-> "none", high |-> 0,
      addr |-> 0, expect |-> 0, k |-> 0 ]

InitPort == nes = NewBus /\ obs = NewPortObs

\* the bytes the CPU may store to a PPU port
StoreBytes(port) ==
    CASE port = 0 -> CtrlBytes
      [] port = 5 -> ScrollBytes
      [] port = 6 -> AddrBytes
      [] OTHER -> DataBytes

\* obs after an access of the port by the CPU: a store of data, or a load
\* (kind "Load") for which the cartridge would return data
ObservePort(o, pre, kind, port, data) ==
    LET first  == kind = "Store" /\ port = 6 /\ pre.Ppu.addrLatch = 0
        second == kind = "Store" /\ port = 6 /\ o.phase = "high"
        access == port = 7 /\ o.phase = "set"
    IN  [o EXCEPT
          !.kind = kind, !.prev = pre, !.ops = @ + 1, !.port = port, !.data = data,
          !.phase = IF first THEN "high"
                    ELSE IF second THEN "set"
                    ELSE IF port \in {5, 6} THEN "none"
                    ELSE IF port = 2 /\ @ = "high" THEN "none"
                    ELSE IF port = 0 /\ @ = "high" THEN "none"
                    ELSE @,
          !.high = IF first THEN data ELSE @,
          !.addr = IF access THEN o.expect ELSE @,
          !.k = IF second THEN 0 ELSE IF access THEN @ + 1 ELSE @,
          !.expect = IF second THEN (o.high % 64) * 256 + data
                     ELSE IF access
                          THEN @ + (IF Bit(pre.Ppu.ppuCtrl, 2) = 1 THEN 32 ELSE 1)
                          ELSE @ ]

\* Bus.CpuWrite to a PPU port
PortStore ==
    /\ obs.kind # "New"
    /\ obs.ops < MaxPortSeq
    /\ \E port \in {0, 5, 6, 7} : \E data \in StoreBytes(port) :
          /\ nes' = CpuWrite(nes, ppuMinAddr + port, data)
          /\ obs' = ObservePort(obs, nes, "Store", port, data)

\* Bus.CpuRead of a PPU port
PortLoad ==
    /\ obs.kind # "New"
    /\ obs.ops < MaxPortSeq
    /\ \E port \in {2, 7} : \E chr \in ChrBytes :
          /\ nes' = CpuRead(nes, ppuMinAddr + port, chr).bus
          /\ obs' = ObservePort(obs, nes, "Load", port, chr)

NextPort == Reset \/ PortStore \/ PortLoad

SpecPort == InitPort /\ [][NextPort]_vars

\* C11: a first write to PPUADDR (toggle 0) sets bits 8..13 of T to
\* data & 0x3F, clears bit 14 and leaves V alone; the second write sets the
\* low byte of T and copies T to V; after the two writes V is the address T
\* they spell, and the k-th PPUDATA access that follows (load or store)
\* uses T plus the sum of the steps of the accesses before it, each step
\* being 32 if PPUCTRL bit 2 was set at that access and 1 otherwise.
C11_AddrSequence ==
    /\ (obs.kind = "Store" /\ obs.port = 6 /\ obs.prev.Ppu.addrLatch = 0) =>
           /\ GetField(nes.Ppu.tRam, 8, 6) = obs.data % 64
           /\ Bit(nes.Ppu.tRam, 14) = 0
           /\ nes.Ppu.tRam % 256 = obs.prev.Ppu.tRam % 256
           /\ nes.Ppu.vRam = obs.prev.Ppu.vRam
    /\ (obs.kind = "Store" /\ obs.port = 6 /\ obs.prev.Ppu.addrLatch = 1) =>
           /\ nes.Ppu.tRam % 256 = obs.data
           /\ nes.Ppu.tRam \div 256 = obs.prev.Ppu.tRam \div 256
           /\ nes.Ppu.vRam = nes.Ppu.tRam
    /\ obs.phase = "set" =>
           /\ nes.Ppu.vRam = obs.expect
           /\ (obs.port = 6 /\ obs.kind = "Store") => nes.Ppu.tRam = obs.expect
    /\ (obs.phase = "set" /\ obs.port = 7 /\ obs.kind = "Store") =>
           nes.Ppu = [ppuWrite(obs.prev.Ppu, nes.Cart.mirroring, obs.addr, obs.data)
                        EXCEPT !.vRam = obs.expect]
    /\ (obs.phase = "set" /\ obs.port = 7 /\ obs.kind = "Load") =>
           nes.Ppu = [obs.prev.Ppu EXCEPT
                        !.dataBuffer = ppuRead(obs.prev.Ppu, nes.Cart.mirroring,
                                               obs.addr, obs.data),
                        !.vRam = obs.expect]

\* the third PPUDATA access after PPUADDR was set to 0x2020: a load that
\* followed a store made with the step at 32 and a store made with it at 1,
\* and that found the byte at 0x2041
C11_Witness ==
    /\ obs.kind = "Load" /\ obs.port = 7 /\ obs.phase = "set" /\ obs.k = 3
    /\ obs.addr = 8192 + 32 + 32 + 1
    /\ nes.Ppu.vRam \in {obs.addr + 1, obs.addr + 32}
----------------------------------------------------------------------------
(* A frame without port accesses (SpecIdle).  The cartridge sets PPUADDR   *)
(* with two stores at the reset vector, then stores the same byte to       *)
(* PPUCTRL (which moves the nametable bits of T away from V) or to PPUMASK *)
(* (0x21 leaves rendering off, 0x2B shows the background), and holds NOPs  *)
(* from there on.  obs remembers V and T as the last port store left them. *)

MaxIdleClock == 89700

NewIdleObs == NewObs @@ [ v0 |-> 0, t0 |-> 0, idle |-> 0 ]

InitIdle == nes = NewBus /\ obs = NewIdleObs

MenuIdle ==
    IF ~(Fetches(nes) /\ nes.Cpu.Pc >= cartMinAddr) THEN {NOP}
    ELSE IF nes.Cpu.Pc = 32768 THEN {LDAimm(33), LDAimm(43)}
    ELSE IF nes.Cpu.Pc \in {32770, 32773} THEN {STAabs(8198)}
    ELSE IF nes.Cpu.Pc = 32776 THEN {STAabs(8192), STAabs(8193)}
    ELSE {NOP}

ObserveIdle(o, pre, in, post) ==
    LET keep(base) ==
            IF base.portWrite >= 0
            THEN [base EXCEPT !.v0 = post.Ppu.vRam, !.t0 = post.Ppu.tRam, !.idle = 0]
            ELSE [base EXCEPT !.idle = @ + 1]
    IN  keep(Observe(o, pre, in, post))

ClockIdle ==
    /\ obs.kind # "New"
    /\ ~nes.Ppu.frameComplete
    /\ nes.ClockCount < MaxIdleClock
    /\ \E in \in MenuIdle :
          /\ nes' = Bus_Clock(nes, in)
          /\ obs' = ObserveIdle(obs, nes, in, nes')

NextIdle == Reset \/ NextFrame \/ ClockIdle

SpecIdle == InitIdle /\ [][NextIdle]_vars

\* C12: while both show bits of PPUMASK are clear and the CPU accesses no
\* PPU port, no PPU clock changes V or T: after any number of clocks, a
\* whole frame included, they are as the last port store left them.
C12_IdleAddress ==
    (/\ obs.kind \in {"Clock", "Frame"}
     /\ Bit(nes.Ppu.ppuMask, 3) = 0 /\ Bit(nes.Ppu.ppuMask, 4) = 0
     /\ obs.portWrite = -1) =>
        /\ nes.Ppu.vRam = obs.v0
        /\ nes.Ppu.tRam = obs.t0

\* more than a frame of clocks has passed since the store to PPUCTRL that
\* left T different from V, with rendering off
C12_Witness ==
    /\ obs.kind = "Clock" /\ obs.idle > FrameDots /\ nes.Ppu.frames = 1
    /\ Bit(nes.Ppu.ppuMask, 3) = 0 /\ Bit(nes.Ppu.ppuMask, 4) = 0
    /\ nes.Ppu.vRam = 2 * 4096 + 256 + 33
    /\ nes.Ppu.tRam = nes.Ppu.vRam + 1024
----------------------------------------------------------------------------
(* The controller ports alone (SpecPad): after reset the keyboard is       *)
(* polled (Bus.Run) and the CPU side of the bus stores to and loads from   *)
(* 0x4016 and 0x4017, in any order.  obs follows the strobe on its own:    *)
(* phase is "high" after a store with bit 0 set to 0x4016 and "latched"    *)
(* after the store with bit 0 clear that follows it; snap is the button    *)
(* state of both controllers at that store and reads[i] the number of      *)
(* loads of port i made since.                                             *)

MaxPadSeq == 10
MaxPolls == 2

\* A, Start and Left pressed; B, Select, Up, Down and Right pressed
PadButtons ==
    { [pos \in 0..7 |-> pos \in {keyA, keyStart, keyLeft}],
      [pos \in 0..7 |-> pos \in {keyB, keySelect, keyUp, keyDown, keyRight}] }

\* the order in which the buttons are to be shifted out
ReadOrder == << keyA, keyB, keySelect, keyStart, keyUp, keyDown, keyLeft, keyRight >>

NewPadObs ==
    [ kind |-> "New", prev |-> NewBus, in |-> NOP, ops |-> 0, polls |-> 0,
      port |-> -1, data |-> 0, phase |-> "none",
      snap |-> [i \in 0..1 |-> NewController], reads |-> [i \in 0..1 |-> 0] ]

InitPad == nes = NewBus /\ obs = NewPadObs

\* Bus.Run: Controller[i].updateControllerInput for both controllers; keys
\* are the button states the key events of the frame leave
PadPoll ==
    /\ obs.kind # "New"
    /\ obs.polls < MaxPolls
    /\ \E keys \in [0..1 -> PadButtons] :
          /\ nes' = [nes EXCEPT !.Controller = keys]
          /\ obs' = [obs EXCEPT !.kind = "Poll", !.prev = nes, !.polls = @ + 1]

\* Bus.CpuWrite to a controller port
PadStore ==
    /\ obs.kind # "New"
    /\ obs.ops < MaxPadSeq
    /\ \E port \in 0..1 : \E data \in 0..1 :
          /\ nes' = CpuWrite(nes, ctrlMinAddr + port, data)
          /\ obs' = [obs EXCEPT
                       !.kind = "Store", !.prev = nes, !.ops = @ + 1,
                       !.port = port, !.data = data,
                       !.phase = IF port = 0 /\ data = 1 THEN "high"
                                 ELSE IF port = 0 /\ @ = "high" THEN "latched"
                                 ELSE "none",
                       !.snap = nes.Controller,
                       !.reads = [i \in 0..1 |-> 0] ]

\* Bus.CpuRead of a controller port
PadLoad ==
    /\ obs.kind # "New"
    /\ obs.ops < MaxPadSeq
    /\ \E port \in 0..1 :
          LET loaded(r) ==
                  /\ nes' = r.bus
                  /\ obs' = [obs EXCEPT
                               !.kind = "Load", !.prev = nes, !.ops = @ + 1,
                               !.port = port, !.data = r.data,
                               !.reads[port] = @ + 1 ]
          IN  loaded(CpuRead(nes, ctrlMinAddr + port, 0))

NextPad == Reset \/ PadPoll \/ PadStore \/ PadLoad

SpecPad == InitPad /\ [][NextPad]_vars

\* C20: after the strobe (bit 0 stored as 1 then 0 to 0x4016) the n-th
\* load of 0x4016, n in 1..8, returns in bit 0 the state the n-th button of
\* A, B, Select, Start, Up, Down, Left, Right had on controller 1 when the
\* strobe fell, and the n-th load of 0x4017 that of controller 2; a load of
\* one port leaves the other port's shift register alone.
C20_ControllerReads ==
    /\ (obs.kind = "Load" /\ obs.phase = "latched" /\ obs.reads[obs.port] \in 1..8) =>
           (obs.data % 2 = 1) <=> obs.snap[obs.port][ReadOrder[obs.reads[obs.port]]]
    /\ obs.kind = "Load" =>
           nes.ControllerState[1 - obs.port] = obs.prev.ControllerState[1 - obs.port]
----------------------------------------------------------------------------
(* Two copies of the machine (SpecPair), nes and obs.copy, built alike,    *)
(* holding the same cartridge and shown the same buttons at each poll.     *)
(* What the copies do not share is the wall clock: the time Bus.Run finds  *)
(* elapsed at the end of a frame is drawn for each copy on its own.  The   *)
(* cartridge strobes the controllers at the reset vector and then holds a  *)
(* few loads of the controller ports and stores among NOPs.  The           *)
(* framebuffer is not part of the model.                                   *)

MaxPairClock == 150
MaxPairOps == 3

\* milliseconds a frame may have taken when Bus.Run looks at the clock
Elapsed == {5, 20}

\* time.Duration((1 / fps) * 1000) * time.Millisecond, in milliseconds
FrameInterval == 16

\* Bus.Run in which a frame that took longer than the interval skips the
\* controller poll
Run_frame_late(b, keys, since) ==
    IF FrameInterval - since < 0
    THEN [b EXCEPT !.Ppu.frameComplete = FALSE]
    ELSE [b EXCEPT !.Controller = keys, !.Ppu.frameComplete = FALSE]

\* Bus.Run, the body of the loop after the frame was clocked: the
\* controllers are polled, the rest of the interval (interval - since) is
\* slept, and frameComplete is lowered
Run_frame(b, keys, since) ==
    [b EXCEPT !.Controller = keys, !.Ppu.frameComplete = FALSE]

NewPairObs ==
    [ kind |-> "New", prev |-> NewBus, in |-> NOP, ops |-> 0,
      copy |-> NewBus, since |-> << 0, 0 >> ]

InitPair == nes = NewBus /\ obs = NewPairObs

\* main(): Cpu.Reset() in both copies
ResetPair ==
    /\ obs.kind = "New"
    /\ nes' = Cpu_Reset(nes, ResetIn)
    /\ obs' = [obs EXCEPT !.kind = "Reset", !.prev = nes, !.in = ResetIn,
                          !.copy = Cpu_Reset(@, ResetIn)]

FramePair ==
    /\ obs.kind # "New"
    /\ nes.Ppu.frameComplete
    /\ \E keys \in [0..1 -> PadButtons] : \E s1 \in Elapsed : \E s2 \in Elapsed :
          /\ nes' = Run_frame(nes, keys, s1)
          /\ obs' = [obs EXCEPT !.kind = "Frame", !.prev = nes,
                                !.copy = Run_frame(@, keys, s2),
                                !.since = << s1, s2 >>]

MenuPair ==
    IF ~(Fetches(nes) /\ nes.Cpu.Pc >= cartMinAddr) THEN {NOP}
    ELSE IF nes.Cpu.Pc = 32768 THEN {LDAimm(1)}
    ELSE IF nes.Cpu.Pc = 32770 THEN {STAabs(ctrlMinAddr)}
    ELSE IF obs.ops < MaxPairOps
         THEN {NOP, LDAabs(ctrlMinAddr), LDAabs(ctrlMaxAddr), STAabs(512), STAabs(8198)}
    ELSE {NOP}

ClockPair ==
    /\ obs.kind # "New"
    /\ ~nes.Ppu.frameComplete
    /\ nes.ClockCount < MaxPairClock
    /\ \E in \in MenuPair :
          /\ nes' = Bus_Clock(nes, in)
          /\ obs' = [obs EXCEPT !.kind = "Clock", !.prev = nes, !.in = in,
                                !.ops = IF Fetches(nes) /\ in.op # NOP.op /\ nes.Cpu.Pc > 32770
                                        THEN @ + 1 ELSE @,
                                !.copy = Bus_Clock(@, in)]

NextPair == ResetPair \/ FramePair \/ ClockPair

SpecPair == InitPair /\ [][NextPair]_vars

----------------------------------------------------------------------------
(* Reset (SpecReset): the CPU is reset, runs a few instructions that       *)
(* change A, X, Y, the flags and the stack pointer, and is reset again,    *)
(* each time with a reset vector drawn from VectorLo and VectorHi.  obs    *)
(* counts the calls of Cpu6502.Clock since the last reset.                 *)

MaxResets == 2
MaxResetOps == 3
MaxResetTicks == 12
VectorLo == {0, 52}
VectorHi == {128, 192}

\* DEC $10, DEY, DEX, BIT $10, SEC, LDA #$55, PHA
ResetMenu == SetupMenu \cup { LDAimm(85), Instr(72, 0, 0) }

NewResetObs ==
    [ kind |-> "New", prev |-> NewBus, in |-> NOP, resets |-> 0,
      count |-> 0, exec |-> FALSE, sinceReset |-> 0 ]

InitReset == nes = NewBus /\ obs = NewResetObs

\* Cpu6502.Reset, at the start and between two instructions later on
ResetVector ==
    /\ obs.resets < MaxResets
    /\ obs.resets > 0 => nes.Cpu.Cycles = 0 /\ obs.count > 0
    /\ \E lo \in VectorLo : \E hi \in VectorHi :
          LET in == [NOP EXCEPT !.vecLo = lo, !.vecHi = hi]
          IN  /\ nes' = Cpu_Reset(nes, in)
              /\ obs' = [obs EXCEPT !.kind = "Reset", !.prev = nes, !.in = in,
                                    !.resets = @ + 1, !.count = 0,
                                    !.exec = FALSE, !.sinceReset = 0]

\* Cpu6502.Clock
ClockReset ==
    /\ obs.kind # "New"
    /\ obs.sinceReset < MaxResetTicks
    /\ nes.Cpu.Cycles = 0 => obs.count < MaxResetOps
    /\ \E in \in (IF nes.Cpu.Cycles = 0 THEN ResetMenu ELSE {NOP}) :
          /\ nes' = Cpu_Clock(nes, in)
          /\ obs' = [obs EXCEPT !.kind = "CpuClock", !.prev = nes, !.in = in,
                                !.exec = nes.Cpu.Cycles = 0,
                                !.count = IF nes.Cpu.Cycles = 0 THEN @ + 1 ELSE @,
                                !.sinceReset = @ + 1]

NextReset == ResetVector \/ ClockReset

SpecReset == InitReset /\ [][NextReset]_vars

\* C14: after Reset A = X = Y = 0, SP = 0xFD, P = 0x24 and PC is the
\* little-endian word at 0xFFFC/0xFFFD; the next seven calls of Clock only
\* count down and change no register, and the eighth fetches and executes
\* the instruction at that PC.
C14_Reset ==
    LET regs(b) == << b.Cpu.A, b.Cpu.X, b.Cpu.Y, b.Cpu.Sp, b.Cpu.Status, b.Cpu.Pc >>
    IN  /\ obs.kind = "Reset" =>
               /\ regs(nes) = << 0, 0, 0, 253, 36, obs.in.vecHi * 256 + obs.in.vecLo >>
        /\ (obs.kind = "CpuClock" /\ obs.sinceReset <= 7) =>
               /\ ~obs.exec
               /\ regs(nes) = regs(obs.prev)
               /\ nes.Ram = obs.prev.Ram
        /\ (obs.kind = "CpuClock" /\ obs.sinceReset = 8) =>
               /\ obs.exec
               /\ nes.Cpu.Opcode = obs.in.op
               /\ regs(obs.prev) = << 0, 0, 0, 253, 36, obs.prev.Cpu.Pc >>
               /\ obs.prev.Cpu.Pc \in { hi * 256 + lo : lo \in VectorLo, hi \in VectorHi }

\* the CPU was reset a second time after the program had loaded 0x55 into
\* A and pushed it (the byte is still on the stack page), and the eighth
\* Clock since has just executed the first instruction at the vector 0xC034
C14_Witness ==
    /\ obs.kind = "CpuClock" /\ obs.resets = 2 /\ obs.sinceReset = 8 /\ obs.exec
    /\ obs.prev.Cpu.Pc = 192 * 256 + 52
    /\ MemRead(nes.Ram, stackBase + 253) = 85
    /\ obs.prev.Cpu.A = 0 /\ obs.prev.Cpu.Sp = 253
----------------------------------------------------------------------------
(* One branch instruction (SpecBranch).  The CPU stands at an instruction  *)
(* boundary in PRG-ROM with a status byte and a PC drawn from BranchStatus *)
(* and BranchPc; the cartridge holds there any of the branch opcodes with  *)
(* any offset byte, and Cpu6502.Clock executes it.                         *)

\* no flag of C, Z, V, N set; all four set
BranchStatus == {36, 36 + 1 + 2 + 64 + 128}

\* the start, the middle and the end of a page
BranchPc == {32768, 32768 + 126, 32768 + 240}

BranchOpcodes == { op \in 0..255 : InstAddrMode[op + 1] = "REL" }

NewOpObs == [ kind |-> "New", prev |-> NewBus, in |-> NOP ]

\* the machine after reset, at the instruction boundary at pc
AtBoundary(pc, a, sp, status) ==
    [Cpu_Reset(NewBus, ResetIn) EXCEPT
        !.Cpu.Pc = pc, !.Cpu.A = a, !.Cpu.Sp = sp, !.Cpu.Status = status,
        !.Cpu.Cycles = 0, !.Cpu.CycleCount = 7]

InitBranch ==
    /\ \E pc \in BranchPc : \E status \in BranchStatus :
          nes = AtBoundary(pc, 0, 253, status)
    /\ obs = NewOpObs

\* Cpu6502.Clock on a branch instruction
ClockBranch ==
    /\ obs.kind = "New"
    /\ \E op \in BranchOpcodes : \E offset \in 0..255 :
          LET in == Instr(op, offset, 0)
          IN  /\ nes' = Cpu_Clock(nes, in)
              /\ obs' = [obs EXCEPT !.kind = "Exec", !.prev = nes, !.in = in]

NextBranch == ClockBranch

SpecBranch == InitBranch /\ [][NextBranch]_vars

\* C15: there are eight branch opcodes; a branch whose condition holds sets
\* PC to the address after the two-byte instruction plus the offset byte
\* read as a signed number in -128..127, modulo 2^16, and takes 3 cycles, 4
\* if that target is on another page than the address after the
\* instruction; a branch whose condition does not hold leaves PC after the
\* instruction and takes 2 cycles.
C15_Branch ==
    /\ BranchOpcodes = {16, 48, 80, 112, 144, 176, 208, 240}
    /\ obs.kind = "Exec" =>
           LET pre == obs.prev
               next == Word(pre.Cpu.Pc + 2)
               offset == obs.in.lo
               signed == IF offset >= 128 THEN offset - 256 ELSE offset
               target == (next + signed + 65536) % 65536
               cycles == nes.Cpu.Cycles + 1
           IN  IF BranchTaken(InstName[obs.in.op + 1], pre.Cpu.Status)
               THEN /\ nes.Cpu.Pc = target
                    /\ cycles = IF target \div 256 # next \div 256 THEN 4 ELSE 3
               ELSE /\ nes.Cpu.Pc = next
                    /\ cycles = 2
----------------------------------------------------------------------------
(* One addition or subtraction (SpecAlu).  The CPU stands at an            *)
(* instruction boundary with any accumulator and either carry; the         *)
(* cartridge holds ADC #M or SBC #M with any operand byte M.               *)

\* C set and Z, V, N clear; C clear and Z, V, N set
AluStatus == { 36 + 1, 36 + 2 + 64 + 128 }

\* ADC #imm, SBC #imm
AluOpcodes == {105, 233}

InitAlu ==
    /\ \E a \in 0..255 : \E status \in AluStatus :
          nes = AtBoundary(32768, a, 253, status)
    /\ obs = NewOpObs

\* Cpu6502.Clock on ADC or SBC
ClockAlu ==
    /\ obs.kind = "New"
    /\ \E op \in AluOpcodes : \E m \in 0..255 :
          LET in == Instr(op, m, 0)
          IN  /\ nes' = Cpu_Clock(nes, in)
              /\ obs' = [obs EXCEPT !.kind = "Exec", !.prev = nes, !.in = in]

NextAlu == ClockAlu

SpecAlu == InitAlu /\ [][NextAlu]_vars

\* C16: for every A, M and carry-in C, ADC leaves A' = (A + M + C) mod 256,
\* C' = (A + M + C > 255), V' = ((A xor A') and (M xor A') and 0x80) # 0,
\* Z' = (A' = 0) and N' = bit 7 of A'; SBC does the same with M xor 0xFF in
\* the place of M.
C16_AddSubtract ==
    obs.kind = "Exec" =>
        LET a == obs.prev.Cpu.A
            m == IF InstName[obs.in.op + 1] = "ADC" THEN obs.in.lo ELSE Xor8(obs.in.lo, 255)
            c == Bit(obs.prev.Cpu.Status, 0)
            sum == a + m + c
            r == sum % 256
            p == nes.Cpu.Status
        IN  /\ InstName[obs.in.op + 1] \in {"ADC", "SBC"}
            /\ nes.Cpu.A = r
            /\ Bit(p, 0) = (IF sum > 255 THEN 1 ELSE 0)
            /\ Bit(p, 6) = (IF And8(And8(Xor8(a, r), Xor8(m, r)), 128) # 0 THEN 1 ELSE 0)
            /\ Bit(p, 1) = (IF r = 0 THEN 1 ELSE 0)
            /\ Bit(p, 7) = Bit(r, 7)

\* SBC #1 from 0x80 with the carry set (no borrow): 0x7F, overflow, carry
C16_Witness ==
    /\ obs.kind = "Exec" /\ InstName[obs.in.op + 1] = "SBC"
    /\ obs.prev.Cpu.A = 128 /\ obs.in.lo = 1 /\ Bit(obs.prev.Cpu.Status, 0) = 1
    /\ nes.Cpu.A = 127 /\ Bit(nes.Cpu.Status, 6) = 1 /\ Bit(nes.Cpu.Status, 0) = 1
----------------------------------------------------------------------------
(* One BRK (SpecBrk).  The CPU stands at an instruction boundary with any  *)
(* status byte, a stack pointer from StackPointers (the top of the stack   *)
(* page and the values from which three pushes wrap) and a PC at the start *)
(* or the end of a page; the cartridge holds BRK there and an IRQ vector   *)
(* drawn from VectorLo and VectorHi.                                       *)

StackPointers == {253, 1, 0}
BrkPc == {32768, 32768 + 255}

InitBrk ==
    /\ \E pc \in BrkPc : \E sp \in StackPointers : \E status \in 0..255 :
          nes = AtBoundary(pc, 0, sp, status)
    /\ obs = NewOpObs

\* Cpu6502.Clock on BRK
ClockBrk ==
    /\ obs.kind = "New"
    /\ \E lo \in VectorLo : \E hi \in VectorHi :
          LET in == [Instr(0, 0, 0) EXCEPT !.vecLo = lo, !.vecHi = hi]
          IN  /\ nes' = Cpu_Clock(nes, in)
              /\ obs' = [obs EXCEPT !.kind = "Exec", !.prev = nes, !.in = in]

NextBrk == ClockBrk

SpecBrk == InitBrk /\ [][NextBrk]_vars

\* what BRK leaves on the stack and in PC: the high byte of PC, then the
\* low byte, then the status with bit 4 set, and PC from the vector at
\* 0xFFFE/0xFFFF
BrkPushes ==
    LET pre == obs.prev
        pc == Word(pre.Cpu.Pc + 1)
        sp == pre.Cpu.Sp
    IN  /\ MemRead(nes.Ram, stackBase + sp) = pc \div 256
        /\ MemRead(nes.Ram, stackBase + Byte(sp + 255)) = pc % 256
        /\ MemRead(nes.Ram, stackBase + Byte(sp + 254)) = Or8(pre.Cpu.Status, 16)
        /\ nes.Cpu.Sp = Byte(sp + 253)
        /\ nes.Cpu.Pc = obs.in.vecHi * 256 + obs.in.vecLo

\* C17: BRK pushes the high byte of PC, then the low byte, then P with
\* bit 4 (B) set, sets the I flag of the status register and loads PC from
\* the little-endian vector at 0xFFFE/0xFFFF.
C17_Brk ==
    obs.kind = "Exec" =>
        /\ BrkPushes
        /\ Bit(nes.Cpu.Status, 2) = 1
----------------------------------------------------------------------------
(* A push and a pull (SpecPull).  The CPU stands at an instruction         *)
(* boundary with any status byte, an accumulator from PullBytes and a      *)
(* stack pointer from PullPointers; the cartridge holds PHP or PHA and,    *)
(* behind it, PLP or RTI.  obs keeps the machine as it started and the     *)
(* opcode of the first instruction.                                        *)

\* bytes with bits 4 and 5 clear, only bit 4 set, only bit 5 clear, all set
PullBytes == {0, 16, 223, 255}
PullPointers == {253, 0, 255}

\* PHP, PHA
PushOpcodes == {8, 72}
\* PLP, RTI
PullOpcodes == {40, 64}

NewPullObs ==
    [ kind |-> "New", prev |-> NewBus, in |-> NOP, count |-> 0, exec |-> FALSE,
      first |-> 0, start |-> NewBus ]

InitPull ==
    /\ \E a \in PullBytes : \E sp \in PullPointers : \E status \in 0..255 :
          nes = AtBoundary(32768, a, sp, status)
    /\ obs = NewPullObs

\* Cpu6502.Clock: the push, its remaining ticks, the pull
ClockPull ==
    /\ ~(nes.Cpu.Cycles = 0 /\ obs.count = 2)
    /\ \E op \in (IF nes.Cpu.Cycles # 0 THEN {NOP.op}
                  ELSE IF obs.count = 0 THEN PushOpcodes ELSE PullOpcodes) :
          LET in == Instr(op, 0, 0)
          IN  /\ nes' = Cpu_Clock(nes, in)
              /\ obs' = [obs EXCEPT
                           !.kind = "CpuClock", !.prev = nes, !.in = in,
                           !.exec = nes.Cpu.Cycles = 0,
                           !.count = IF nes.Cpu.Cycles = 0 THEN @ + 1 ELSE @,
                           !.first = IF obs.kind = "New" THEN op ELSE @,
                           !.start = IF obs.kind = "New" THEN nes ELSE @]

NextPull == ClockPull

SpecPull == InitPull /\ [][NextPull]_vars

\* C18: for every status byte P, PHP followed by PLP leaves SP as it was
\* and the status equal to P with bit 5 set (bit 4 as it was); and bit 5 of
\* the status is set after every PLP and every RTI, whatever byte they
\* pulled.
C18_PushPull ==
    (obs.kind = "CpuClock" /\ obs.exec /\ obs.count = 2) =>
        /\ InstName[obs.in.op + 1] \in {"PLP", "RTI"}
        /\ Bit(nes.Cpu.Status, 5) = 1
        /\ (InstName[obs.first + 1] = "PHP" /\ InstName[obs.in.op + 1] = "PLP") =>
               /\ nes.Cpu.Sp = obs.start.Cpu.Sp
               /\ nes.Cpu.Status = Or8(obs.start.Cpu.Status, 32)

\* PHP and PLP with bits 4 and 5 of the status clear and the stack pointer
\* at 0, from where the push wraps to 0xFF
C18_Witness ==
    /\ obs.kind = "CpuClock" /\ obs.exec /\ obs.count = 2
    /\ InstName[obs.first + 1] = "PHP" /\ InstName[obs.in.op + 1] = "PLP"
    /\ obs.start.Cpu.Status = 195 /\ obs.start.Cpu.Sp = 0
    /\ obs.prev.Cpu.Sp = 255
    /\ nes.Cpu.Status = 227 /\ nes.Cpu.Sp = 0

\* RTI pulled a byte with bit 5 clear and set the bit
C18_WitnessRti ==
    /\ obs.kind = "CpuClock" /\ obs.exec /\ obs.count = 2
    /\ InstName[obs.first + 1] = "PHA" /\ InstName[obs.in.op + 1] = "RTI"
    /\ obs.start.Cpu.A = 223
    /\ Bit(nes.Cpu.Status, 5) = 1
----------------------------------------------------------------------------
(* A call and its return (SpecCall).  The CPU stands at an instruction     *)
(* boundary with any stack pointer, a status byte from CallStatus and a PC *)
(* from CallPc (mid-page, where the operand bytes cross a page, and where  *)
(* the return address wraps to 0); the cartridge holds there a JSR to an   *)
(* address from CallTarget, and at that address an RTS.                    *)

CallStatus == {36, 36 + 1 + 2 + 8 + 64 + 128}
CallPc == {32768, 32768 + 254, 65533}
CallTarget == {49152, 32768 + 3}

NewCallObs ==
    [ kind |-> "New", prev |-> NewBus, in |-> NOP, count |-> 0, exec |-> FALSE,
      start |-> NewBus ]

InitCall ==
    /\ \E pc \in CallPc : \E sp \in 0..255 : \E status \in CallStatus :
          nes = AtBoundary(pc, 0, sp, status)
    /\ obs = NewCallObs

\* JSR target (0x20) where the CPU starts, RTS (0x60) at the target
CallMenu ==
    IF nes.Cpu.Cycles # 0 THEN {NOP}
    ELSE IF obs.count = 0
         THEN { Instr(32, target % 256, target \div 256) : target \in CallTarget }
         ELSE { Instr(96, 0, 0) }

\* Cpu6502.Clock: the JSR, its remaining ticks, the RTS
ClockCall ==
    /\ ~(nes.Cpu.Cycles = 0 /\ obs.count = 2)
    /\ \E in \in CallMenu :
          /\ nes' = Cpu_Clock(nes, in)
          /\ obs' = [obs EXCEPT
                       !.kind = "CpuClock", !.prev = nes, !.in = in,
                       !.exec = nes.Cpu.Cycles = 0,
                       !.count = IF nes.Cpu.Cycles = 0 THEN @ + 1 ELSE @,
                       !.start = IF obs.kind = "New" THEN nes ELSE @]

NextCall == ClockCall

SpecCall == InitCall /\ [][NextCall]_vars

\* C19: the RTS that follows a JSR at address a, the two bytes the JSR
\* pushed being intact, leaves PC at a + 3 (modulo 2^16) and SP as it was
\* before the JSR, for every SP, the wrapping ones included; neither
\* instruction changes the status.
C19_CallReturn ==
    /\ (obs.kind = "CpuClock" /\ obs.exec /\ obs.count = 1) =>
           /\ InstName[obs.in.op + 1] = "JSR"
           /\ nes.Cpu.Pc = obs.in.hi * 256 + obs.in.lo
           /\ nes.Cpu.Status = obs.start.Cpu.Status
    /\ (obs.kind = "CpuClock" /\ obs.exec /\ obs.count = 2) =>
           /\ InstName[obs.in.op + 1] = "RTS"
           /\ nes.Cpu.Pc = (obs.start.Cpu.Pc + 3) % 65536
           /\ nes.Cpu.Sp = obs.start.Cpu.Sp
           /\ nes.Cpu.Status = obs.start.Cpu.Status

\* the return from a JSR at 0xFFFD made with the stack pointer at 0: the
\* pushes wrapped to 0xFF and 0xFE, and PC wrapped to 0
C19_Witness ==
    /\ obs.kind = "CpuClock" /\ obs.exec /\ obs.count = 2
    /\ obs.start.Cpu.Pc = 65533 /\ obs.start.Cpu.Sp = 0
    /\ obs.prev.Cpu.Sp = 254
    /\ nes.Cpu.Pc = 0 /\ nes.Cpu.Sp = 0

----------------------------------------------------------------------------
(* C21: the 2 KiB RAM and its mirrors.  The CPU bus is driven directly:    *)
(* stores and loads of RAM addresses, of the PPU ports, the DMA port, the  *)
(* controller port and the cartridge, between ticks of Bus.Clock.  obs     *)
(* keeps, for each RAM cell used, the byte last stored to one of its       *)
(* mirrors.                                                                *)

MaxRamOps == 4
MaxRamClock == 10
\* cells 5 and 0x7FF, each through two of its four mirrors
RamAddrs == {5, 4096 + 5, 2047, 8191}
RamBytes == {0, 9, 255}
\* PPUADDR, the DMA port, controller 1, a PRG address
OtherStores == {8198, 16404, 16406, 36864}
\* PPUDATA, controller 1, a PRG address
OtherLoads == {8199, 16406, 36864}

NewRamObs ==
    [ kind |-> "New", ops |-> 0, addr |-> 0, data |-> 0,
      last |-> [c \in {a % 2048 : a \in RamAddrs} |-> 0] ]

InitRam == nes = NewBus /\ obs = NewRamObs

\* Bus.CpuWrite by the CPU
RamStore ==
    /\ obs.kind # "New"
    /\ obs.ops < MaxRamOps
    /\ \E addr \in RamAddrs \cup OtherStores : \E data \in RamBytes :
          /\ nes' = CpuWrite(nes, addr, data)
          /\ obs' = [obs EXCEPT
                       !.kind = "Store", !.ops = @ + 1, !.addr = addr, !.data = data,
                       !.last = IF addr \in RamAddrs
                                THEN [@ EXCEPT ![addr % 2048] = data] ELSE @]

\* Bus.CpuRead by the CPU
RamLoad ==
    /\ obs.kind # "New"
    /\ obs.ops < MaxRamOps
    /\ \E addr \in RamAddrs \cup OtherLoads : \E rom \in {7} :
          LET r == CpuRead(nes, addr, rom)
          IN  /\ nes' = r.bus
              /\ obs' = [obs EXCEPT
                           !.kind = "Load", !.ops = @ + 1, !.addr = addr,
                           !.data = r.data]

\* Bus.Clock: the PPU, and the CPU running NOPs or a step of the DMA
ClockRam ==
    /\ obs.kind # "New"
    /\ nes.ClockCount < MaxRamClock
    /\ nes' = Bus_Clock(nes, NOP)
    /\ obs' = [obs EXCEPT !.kind = "Clock"]

NextRam == Reset \/ RamStore \/ RamLoad \/ ClockRam

SpecRam == InitRam /\ [][NextRam]_vars

\* C21: a CPU read of an address in 0x0000-0x1FFF returns the byte most
\* recently written through the CPU bus to an address of that range
\* congruent to it modulo 0x0800 (0 if none), whatever PPU clocks, PPU port
\* accesses, DMA steps, controller accesses and cartridge accesses came in
\* between.
C21_RamMirror ==
    /\ (obs.kind = "Load" /\ obs.addr <= 8191) => obs.data = obs.last[obs.addr % 2048]
    /\ \A a \in RamAddrs :
          \A k \in 0..3 :
             CpuRead(nes, (a % 2048) + 2048 * k, 0).data = obs.last[a % 2048]

\* a load of 0x1FFF returns the 255 stored through 0x07FF, with 9 in the
\* other cell, while a DMA transfer is under way and after a store reached
\* the cartridge
C21_Witness ==
    /\ obs.kind = "Load" /\ obs.addr = 8191 /\ obs.data = 255
    /\ obs.last[5] = 9
    /\ nes.dmaTransfer /\ nes.ClockCount > 3

----------------------------------------------------------------------------
(* C22, C23: mapper 0 and the PRG memory.  The cartridge has one or two    *)
(* PRG chunks; the CPU stores to and loads from cartridge addresses        *)
(* through the bus, and the mapper is asked for addresses on both sides of *)
(* 0x8000.  The file loaded into prgMem holds Byte(fill + k) at offset k.  *)

MaxCartOps == 3
CartChunks == {1, 2}
CartFill == {3, 200}
\* the first and last address of each 16 KiB half, and one inside each
CartAddrs == {32768, 32768 + 5, 49151, 49152, 49152 + 5, 65535}
\* addresses below the cartridge range
LowAddrs == {0, 8194, 16406, 32767}
CartBytes == {9, 255}

RomAt(fill, k) == Byte(fill + k)

NewCartObs(fill) ==
    [ kind |-> "New", ops |-> 0, fill |-> fill, addr |-> 0, data |-> 0,
      m |-> [ok |-> FALSE, mappedAddr |-> 0], prev |-> NewBus ]

InitCart ==
    \E chunks \in CartChunks : \E fill \in CartFill :
       /\ nes = [NewBus EXCEPT !.Cart = NewCart(chunks, 1)]
       /\ obs = NewCartObs(fill)

\* Mapper000.cpuMapRead asked for an address
CartMap ==
    /\ ~nes.Cart.fault
    /\ \E addr \in CartAddrs \cup LowAddrs :
          obs' = [obs EXCEPT !.kind = "Map", !.addr = addr, !.prev = nes,
                             !.m = cpuMapRead(nes.Cart.mapper, addr)]
    /\ UNCHANGED nes

\* Bus.CpuWrite to a cartridge address
CartStore ==
    /\ ~nes.Cart.fault
    /\ obs.ops < MaxCartOps
    /\ \E addr \in CartAddrs : \E data \in CartBytes :
          /\ nes' = CpuWrite(nes, addr, data)
          /\ obs' = [obs EXCEPT !.kind = "Store", !.ops = @ + 1, !.addr = addr,
                                !.data = data, !.prev = nes]

\* Bus.CpuRead of a cartridge address
CartLoad ==
    /\ ~nes.Cart.fault
    /\ obs.ops < MaxCartOps
    /\ \E addr \in CartAddrs :
          LET r == CpuRead(nes, addr,
                           RomAt(obs.fill, cpuMapRead(nes.Cart.mapper, addr).mappedAddr))
          IN  /\ nes' = r.bus
              /\ obs' = [obs EXCEPT !.kind = "Load", !.ops = @ + 1, !.addr = addr,
                                    !.data = r.data, !.prev = nes]

NextCart == CartMap \/ CartStore \/ CartLoad

SpecCart == InitCart /\ [][NextCart]_vars

\* C22: mapper 0 maps a CPU read of an address a in 0x8000-0xFFFF to PRG
\* offset a - 0x8000 with two PRG chunks and to a & 0x3FFF with one, so the
\* offset is below the PRG size; an address below 0x8000 is reported
\* unmapped.
C22_MapperRead ==
    obs.kind = "Map" =>
       IF obs.addr >= 32768
       THEN /\ obs.m.ok
            /\ obs.m.mappedAddr = IF nes.Cart.mapper.PrgBanks = 2
                                  THEN obs.addr - 32768
                                  ELSE obs.addr % 16384
            /\ obs.m.mappedAddr < PrgSize(nes.Cart)
       ELSE ~obs.m.ok

\* the part of C22 that holds: every address from 0x8000 is mapped, to an
\* offset that agrees with the claim in the lower 16 KiB half, and every
\* address below 0x8000 is unmapped
MapperLowerHalf ==
    obs.kind = "Map" =>
       IF obs.addr >= 32768
       THEN /\ obs.m.ok
            /\ obs.addr < 49152 => obs.m.mappedAddr = obs.addr - 32768
       ELSE ~obs.m.ok

\* C23: a CPU write to an address in 0x8000-0xFFFF leaves the PRG memory
\* unchanged, so that a later read of the address returns the byte of the
\* ROM file.
C23_PrgReadOnly ==
    /\ obs.kind = "Store" => nes.Cart.prgMem = obs.prev.Cart.prgMem
    /\ (obs.kind = "Load" /\ ~nes.Cart.fault) =>
          obs.data = RomAt(obs.fill, cpuMapRead(nes.Cart.mapper, obs.addr).mappedAddr)

\* what the code does: a load returns the byte last stored to the offset
\* the address maps to, and the byte of the file if there was no store
PrgLastStored ==
    (obs.kind = "Load" /\ ~nes.Cart.fault) =>
       LET k == cpuMapRead(nes.Cart.mapper, obs.addr).mappedAddr
       IN  obs.data = IF k \in DOMAIN nes.Cart.prgMem
                      THEN nes.Cart.prgMem[k] ELSE RomAt(obs.fill, k)

----------------------------------------------------------------------------
(* C24: loading a ROM file.  A file is described by what NewCartridge      *)
(* looks at: whether it can be read, whether it holds all the bytes its    *)
(* header announces, the two flag bytes and the chunk counts.  main()      *)
(* loads the file, inserts what NewCartridge returned and starts up.       *)

RomFiles ==
    [ exists : BOOLEAN, complete : BOOLEAN,
      Mapper1 : {0, 8, 16, 64}, Mapper2 : {0, 4, 16},
      PrgRomChunks : {1, 2}, ChrRomChunks : {1} ]

\* mapperId of NewCartridge: the high nibbles of flag bytes 7 and 6
MapperId(file) == Byte((file.Mapper2 \div 16) * 16) + file.Mapper1 \div 16

\* NewCartridge(filepath).  fatal: log.Fatalf ended the program.
\* Otherwise cartridge is the object built (hasMapper tells whether its
\* mapper field was set), and returned tells whether the function returns
\* it: the function ends with "return nil".
NewCartridge(file) ==
    LET built ==
            [ hasMapper |-> MapperId(file) = 0,
              mapper |-> NewMapper000(file.PrgRomChunks, file.ChrRomChunks),
              prgSize |-> 16 * 1024 * file.PrgRomChunks,
              chrSize |-> 8 * 1024 * file.ChrRomChunks ]
    IN  [ fatal |-> ~file.exists \/ ~file.complete,
          cartridge |-> built,
          returned |-> FALSE ]

NewLoadObs ==
    [ at |-> "start", file |-> CHOOSE f \in RomFiles : TRUE,
      fatal |-> FALSE, hasCart |-> FALSE, hasMapper |-> FALSE ]

InitLoad == nes = NewBus /\ obs = NewLoadObs

\* main(): cart := nes.NewCartridge(path)
LoadRom ==
    /\ obs.at = "start"
    /\ \E file \in RomFiles :
          LET done(r) ==
                  obs' = [obs EXCEPT
                            !.at = IF r.fatal THEN "exit" ELSE "loaded",
                            !.file = file, !.fatal = r.fatal,
                            !.hasCart = ~r.fatal /\ r.returned,
                            !.hasMapper = ~r.fatal /\ r.returned
                                          /\ r.cartridge.hasMapper]
          IN  done(NewCartridge(file))
    /\ UNCHANGED nes

\* main(): nesEmulator.InsertCartridge(cart)
InsertRom ==
    /\ obs.at = "loaded"
    /\ obs' = [obs EXCEPT !.at = "inserted"]
    /\ UNCHANGED nes

\* main(): Cpu.Disassemble(0x0000, 0xFFFF), Cpu.Reset(), pixelgl.Run.  The
\* disassembly reads 0x8000 through Bus.CpuRead, which calls
\* b.Cart.cpuRead: without a cartridge, or with one whose mapper is nil,
\* that is a nil dereference and the program panics.
StartUp ==
    /\ obs.at = "inserted"
    /\ IF obs.hasCart /\ obs.hasMapper
       THEN /\ obs' = [obs EXCEPT !.at = "run"]
            /\ nes' = Cpu_Reset(nes, ResetIn)
       ELSE /\ obs' = [obs EXCEPT !.at = "panic"]
            /\ UNCHANGED nes

NextLoad == LoadRom \/ InsertRom \/ StartUp

SpecLoad == InitLoad /\ [][NextLoad]_vars

\* C24: a ROM whose header selects a mapper other than 0 is refused with
\* an error when it is loaded: NewCartridge ends in its error exit, nothing
\* is inserted, and the run loop is never entered.
C24_MapperRefused ==
    (obs.at # "start" /\ MapperId(obs.file) # 0) =>
        /\ obs.fatal
        /\ obs.at = "exit"

\* what the code does: the only files refused at load time are those that
\* cannot be read or are shorter than their header announces, whatever the
\* mapper; no load hands a cartridge to main(), and the run loop is not
\* reached
LoadOutcome ==
    /\ obs.at # "start" =>
          /\ obs.fatal = (~obs.file.exists \/ ~obs.file.complete)
          /\ ~obs.hasCart
    /\ obs.at # "run"

----------------------------------------------------------------------------
(* C25: Cpu6502.Disassemble.  The text it returns is not modelled; the     *)
(* bus reads it performs are.  Every byte of a cartridge read during one   *)
(* call is the input rom.                                                  *)

\* the number of operand bytes Disassemble reads for an addressing mode
OperandBytes(mode) ==
    IF mode = "IMP" THEN 0
    ELSE IF mode \in {"ABS", "ABX", "ABY", "IND"} THEN 2
    ELSE 1

RECURSIVE DisLoop(_, _, _, _)
\* the loop of Disassemble: addr is the 32-bit counter, truncated to 16
\* bits at each read
DisLoop(b, addr, endAddr, rom) ==
    LET operands(b1, n) ==
            IF n = 0 THEN b1
            ELSE IF n = 1 THEN CpuRead(b1, Word(addr + 1), rom).bus
            ELSE CpuRead(CpuRead(b1, Word(addr + 1), rom).bus, Word(addr + 2), rom).bus
        line(r, n) == DisLoop(operands(r.bus, n), addr + 1 + n, endAddr, rom)
        decode(r) == line(r, OperandBytes(InstAddrMode[r.data + 1]))
    IN  IF addr > endAddr THEN b ELSE decode(CpuRead(b, Word(addr), rom))

\* Cpu6502.Disassemble(startAddr, endAddr): the bus after the call
Disassemble(b, startAddr, endAddr, rom) == DisLoop(b, startAddr, endAddr, rom)

MaxDisOps == 3
\* RAM, the PPU ports (whole and PPUSTATUS alone), the controller ports,
\* the start and the end of the cartridge
DisRanges ==
    { <<0, 7>>, <<8192, 8199>>, <<8194, 8194>>, <<16406, 16407>>,
      <<32768, 32775>>, <<65534, 65535>> }
\* NOP (no operand) and LDA absolute (two operand bytes)
DisRom == {234, 173}
\* stores that prepare the machine: PPUADDR, the controller strobe, RAM
DisStores == {<<8198, 33>>, <<16406, 1>>, <<0, 173>>}

NewDisObs == [ kind |-> "New", prev |-> NewBus, ops |-> 0, range |-> <<0, 0>> ]

InitDis == nes = NewBus /\ obs = NewDisObs

\* Bus.Run: the controllers polled
DisPoll ==
    /\ obs.ops < MaxDisOps
    /\ \E keys \in [0..1 -> PadButtons] :
          /\ nes' = [nes EXCEPT !.Controller = keys]
          /\ obs' = [obs EXCEPT !.kind = "Poll", !.prev = nes, !.ops = @ + 1]

\* Bus.CpuWrite
DisStore ==
    /\ obs.ops < MaxDisOps
    /\ \E st \in DisStores :
          /\ nes' = CpuWrite(nes, st[1], st[2])
          /\ obs' = [obs EXCEPT !.kind = "Store", !.prev = nes, !.ops = @ + 1]

\* Cpu.Disassemble(start, end)
DisRun ==
    /\ obs.ops < MaxDisOps
    /\ \E range \in DisRanges : \E rom \in DisRom :
          /\ nes' = Disassemble(nes, range[1], range[2], rom)
          /\ obs' = [obs EXCEPT !.kind = "Dis", !.prev = nes, !.ops = @ + 1,
                                !.range = range]

NextDis == DisPoll \/ DisStore \/ DisRun

SpecDis == InitDis /\ [][NextDis]_vars

\* C25: Disassemble(start, end) changes nothing: the CPU registers and
\* counters, and everything its bus reads reach (V-blank flag, write
\* toggle, V, the PPUDATA read buffer, the controller shift registers) are
\* after the call as they were before it.
C25_DisassemblePure == obs.kind = "Dis" => nes = obs.prev

\* what the code does: the call changes nothing but the PPU fields a port
\* read changes and the controller shift registers, and those only when
\* the range reaches the ports
DisassembleFrame ==
    obs.kind = "Dis" =>
       /\ [nes EXCEPT !.Ppu = obs.prev.Ppu,
                      !.ControllerState = obs.prev.ControllerState] = obs.prev
       /\ [nes.Ppu EXCEPT !.ppuStatus = obs.prev.Ppu.ppuStatus,
                          !.addrLatch = obs.prev.Ppu.addrLatch,
                          !.vRam = obs.prev.Ppu.vRam,
                          !.dataBuffer = obs.prev.Ppu.dataBuffer] = obs.prev.Ppu
       /\ (obs.range[2] < 8192 \/ obs.range[1] >= 32768) => nes = obs.prev

----------------------------------------------------------------------------
(* C26: the flags after BRK (SpecBrk).                                     *)

\* C26: BRK leaves flags C, Z, I, D, V and N of the live status register
\* as they were, sets flag B in it, and sets PC to the 16-bit word at the
\* IRQ vector 0xFFFE/0xFFFF.
C26_BrkFlags ==
    obs.kind = "Exec" =>
       /\ \A bit \in {0, 1, 2, 3, 6, 7} :
             Bit(nes.Cpu.Status, bit) = Bit(obs.prev.Cpu.Status, bit)
       /\ Bit(nes.Cpu.Status, 4) = 1
       /\ nes.Cpu.Pc = obs.in.vecHi * 256 + obs.in.vecLo

\* a BRK taken with C, Z, V, N set and I, D, B clear, to the vector 0xC034
C26_Witness ==
    /\ obs.kind = "Exec"
    /\ obs.prev.Cpu.Status = 1 + 2 + 64 + 128
    /\ nes.Cpu.Status = 1 + 2 + 16 + 64 + 128
    /\ nes.Cpu.Pc = 192 * 256 + 52

----------------------------------------------------------------------------
(* C27: the byte PHP pushes (SpecPull).                                    *)

\* the byte the next stackPop would return
StackTop(b) == MemRead(b.Ram, stackBase + Byte(b.Cpu.Sp + 1))

----------------------------------------------------------------------------
(* C28: the flags AND, ORA, CLC and BPL change.  One instruction is        *)
(* executed from every status byte.                                        *)

FlagBytes == {0, 1, 15, 85, 127, 128, 240, 255}
\* AND #m, ORA #m, CLC, BPL
FlagOpcodes == {41, 9, 24, 16}

InitFlags ==
    /\ \E a \in FlagBytes : \E status \in 0..255 :
          nes = AtBoundary(32768, a, 253, status)
    /\ obs = NewOpObs

\* Cpu6502.Clock on AND, ORA, CLC or BPL
ClockFlags ==
    /\ obs.kind = "New"
    /\ \E op \in FlagOpcodes : \E m \in (IF op = 24 THEN {0} ELSE FlagBytes) :
          LET in == Instr(op, m, 0)
          IN  /\ nes' = Cpu_Clock(nes, in)
              /\ obs' = [obs EXCEPT !.kind = "Exec", !.prev = nes, !.in = in]

NextFlags == ClockFlags

SpecFlags == InitFlags /\ [][NextFlags]_vars

\* the status bits other than those in the set are as before the instruction
OnlyFlags(bits) ==
    \A bit \in (0..7) \ bits : Bit(nes.Cpu.Status, bit) = Bit(obs.prev.Cpu.Status, bit)

\* C28: AND and ORA set A to (old A op operand) and change only Z (set
\* iff A = 0) and N (bit 7 of A); CLC clears C and changes no other flag;
\* BPL changes no flag, taken or not.
C28_FlagFrame ==
    obs.kind = "Exec" =>
       LET a == obs.prev.Cpu.A
           m == obs.in.lo
       IN  /\ obs.in.op = 41 =>
                /\ \A bit \in 0..7 : Bit(nes.Cpu.A, bit) = Bit(a, bit) * Bit(m, bit)
                /\ Bit(nes.Cpu.Status, 1) = (IF nes.Cpu.A = 0 THEN 1 ELSE 0)
                /\ Bit(nes.Cpu.Status, 7) = Bit(nes.Cpu.A, 7)
                /\ OnlyFlags({1, 7})
           /\ obs.in.op = 9 =>
                /\ \A bit \in 0..7 :
                      Bit(nes.Cpu.A, bit) = IF Bit(a, bit) + Bit(m, bit) > 0 THEN 1 ELSE 0
                /\ Bit(nes.Cpu.Status, 1) = (IF nes.Cpu.A = 0 THEN 1 ELSE 0)
                /\ Bit(nes.Cpu.Status, 7) = Bit(nes.Cpu.A, 7)
                /\ OnlyFlags({1, 7})
           /\ obs.in.op = 24 =>
                /\ Bit(nes.Cpu.Status, 0) = 0
                /\ OnlyFlags({0})
                /\ nes.Cpu.A = a
           /\ obs.in.op = 16 =>
                /\ OnlyFlags({})
                /\ nes.Cpu.A = a

\* AND of 0xF0 with 0x0F from a status with N set and Z clear (0xE5): A is
\* 0, Z is set, N is cleared and the other six bits are as before (0x67)
C28_Witness ==
    /\ obs.kind = "Exec" /\ obs.in.op = 41
    /\ obs.prev.Cpu.A = 240 /\ obs.in.lo = 15
    /\ obs.prev.Cpu.Status = 229
    /\ nes.Cpu.A = 0 /\ nes.Cpu.Status = 103

\* BPL taken, backwards by one byte, with every flag but N set
C28_WitnessBranch ==
    /\ obs.kind = "Exec" /\ obs.in.op = 16 /\ obs.in.lo = 255
    /\ obs.prev.Cpu.Status = 127 /\ nes.Cpu.Status = 127
    /\ nes.Cpu.Pc = 32768 + 1

----------------------------------------------------------------------------
(* C29: Cpu6502.NMI, called at an instruction boundary from every status   *)
(* byte.                                                                   *)

NmiPc == {32768 + 18, 49152 + 255}

InitNmi ==
    /\ \E pc \in NmiPc : \E sp \in StackPointers \cup {2} : \E status \in 0..255 :
          nes = AtBoundary(pc, 0, sp, status)
    /\ obs = NewOpObs

\* Cpu6502.NMI
ServiceNmi ==
    /\ obs.kind = "New"
    /\ \E lo \in VectorLo : \E hi \in VectorHi :
          LET in == [NOP EXCEPT !.vecLo = lo, !.vecHi = hi]
          IN  /\ nes' = Cpu_NMI(nes, in)
              /\ obs' = [obs EXCEPT !.kind = "Nmi", !.prev = nes, !.in = in]

NextNmi == ServiceNmi

SpecNmi == InitNmi /\ [][NextNmi]_vars

\* the three bytes an interrupt leaves on the stack, given the status byte
\* expected there, with PC from the vector and the I flag set
NmiPushes(status) ==
    LET pre == obs.prev
        sp == pre.Cpu.Sp
    IN  /\ MemRead(nes.Ram, stackBase + sp) = pre.Cpu.Pc \div 256
        /\ MemRead(nes.Ram, stackBase + Byte(sp + 255)) = pre.Cpu.Pc % 256
        /\ MemRead(nes.Ram, stackBase + Byte(sp + 254)) = status
        /\ nes.Cpu.Sp = Byte(sp + 253)
        /\ Bit(nes.Cpu.Status, 2) = 1
        /\ nes.Cpu.Pc = obs.in.vecHi * 256 + obs.in.vecLo

\* C29: servicing an NMI takes exactly 7 CPU cycles and pushes the high
\* byte of PC, the low byte of PC and the status with bit 5 set and bit 4
\* cleared, sets the I flag and loads PC from the little-endian vector at
\* 0xFFFA/0xFFFB; SP goes down by 3 modulo 256.
C29_Nmi ==
    obs.kind = "Nmi" =>
       /\ nes.Cpu.Cycles = 7
       /\ NmiPushes(Or8(And8(obs.prev.Cpu.Status, 255 - 16), 32))

\* what the code does: the same pushes, but the status byte pushed has
\* bits 2, 4 and 5 set (I, B and X are set before the push), and the
\* cycle counter is set to 8
NmiAsCoded ==
    obs.kind = "Nmi" =>
       /\ nes.Cpu.Cycles = 8
       /\ NmiPushes(Or8(obs.prev.Cpu.Status, 4 + 16 + 32))
       /\ nes.Cpu.Status = Or8(obs.prev.Cpu.Status, 4 + 16 + 32)

----------------------------------------------------------------------------
(* C30: a load of PPUSTATUS around the start of V-blank, with the NMI      *)
(* enabled.  The cartridge enables the NMI after the reset and runs NOPs;  *)
(* in one frame (the target, chosen at the reset) it may shift its         *)
(* alignment with JMPs shortly before scanline 241 and load PPUSTATUS.     *)
(* CPU ticks fall on different dots in successive frames (a frame is not   *)
(* a multiple of three dots), so that the target frames between them give  *)
(* loads in the ticks of each dot around (241, 1).                         *)

\* the frames in which the load may be made
RaceTargets == {1, 2}
MaxRaceOps == 3
\* the window opens this many dots before scanline 241
RaceLead == 15
\* ticks run after the window: until this cycle of scanline 241
RaceTail == 8

NewRaceObs ==
    [ kind |-> "New", target |-> 0, ops |-> 0, read |-> FALSE,
      at |-> <<0, 0>>, dot |-> <<0, 0>>, data |-> 0, nmis |-> 0 ]

InitRace == nes = NewBus /\ obs = NewRaceObs

\* main(): Cpu.Reset()
ResetRace ==
    /\ obs.kind = "New"
    /\ \E target \in RaceTargets :
          /\ nes' = Cpu_Reset(nes, ResetIn)
          /\ obs' = [obs EXCEPT !.kind = "Reset", !.target = target]

\* Bus.Run between two frames
FrameRace ==
    /\ obs.kind # "New"
    /\ nes.Ppu.frameComplete
    /\ nes.Ppu.frames < obs.target
    /\ nes' = [nes EXCEPT !.Ppu.frameComplete = FALSE]
    /\ obs' = [obs EXCEPT !.kind = "Frame", !.nmis = 0]

\* the PPU is in the window of the target frame
InRaceWindow ==
    /\ nes.Ppu.frames + 1 = obs.target
    /\ \/ nes.Ppu.scanline = 240 /\ nes.Ppu.cycle >= 341 - RaceLead
       \/ nes.Ppu.scanline = 241

MenuRace ==
    IF ~(Fetches(nes) /\ nes.Cpu.Pc >= cartMinAddr) THEN {NOP}
    ELSE IF nes.Cpu.Pc = 32768 THEN {LDAimm(128)}
    ELSE IF nes.Cpu.Pc = 32770 THEN {STAabs(8192)}
    ELSE IF InRaceWindow /\ ~obs.read /\ obs.ops < MaxRaceOps
         THEN {NOP, JMPnext(nes), LDAabs(8194)}
    ELSE {NOP}

\* obs after a Bus.Clock: a load of PPUSTATUS is recorded with the dot the
\* PPU handled in the tick (dot), the position it shows when the CPU reads
\* (at) and the byte loaded; nmis counts the calls of Cpu6502.NMI
ObserveRace(o, pre, in, post) ==
    LET exec == Fetches(pre) /\ pre.Cpu.Pc >= cartMinAddr
        lda == exec /\ in.op = 173 /\ in.hi * 256 + in.lo = 8194
        window == /\ pre.Ppu.frames + 1 = o.target
                  /\ \/ pre.Ppu.scanline = 240 /\ pre.Ppu.cycle >= 341 - RaceLead
                     \/ pre.Ppu.scanline = 241
        nmi == Ppu_Clock(pre.Ppu).nmi
    IN  [o EXCEPT
          !.kind = "Clock",
          !.ops = IF exec /\ window /\ pre.Cpu.Pc # 32768 /\ pre.Cpu.Pc # 32770
                  THEN @ + 1 ELSE @,
          !.read = @ \/ lda,
          !.at = IF lda THEN <<post.Ppu.scanline, post.Ppu.cycle>> ELSE @,
          !.dot = IF lda THEN <<pre.Ppu.scanline, pre.Ppu.cycle>> ELSE @,
          !.data = IF lda THEN post.Cpu.A ELSE @,
          !.nmis = IF nmi THEN @ + 1 ELSE @ ]

\* Bus.Clock, as Bus.Run calls it
ClockRace ==
    /\ obs.kind # "New"
    /\ ~nes.Ppu.frameComplete
    /\ ~(nes.Ppu.frames + 1 = obs.target
         /\ nes.Ppu.scanline = 241 /\ nes.Ppu.cycle >= RaceTail)
    /\ \E in \in MenuRace :
          LET step(post) ==
                  /\ nes' = post
                  /\ obs' = ObserveRace(obs, nes, in, post)
          IN  step(Bus_Clock(nes, in))

NextRace == ResetRace \/ FrameRace \/ ClockRace

SpecRace == InitRace /\ [][NextRace]_vars

\* C30: a load of PPUSTATUS made when the PPU is at (241, 0) returns
\* V-blank = 0 and the NMI of that frame is not taken; a load made at
\* (241, 1) or (241, 2) returns V-blank = 1 and the NMI of that frame is
\* not taken either.  The PPU's position is the dot it handles in the
\* Bus.Clock in which the CPU loads.
C30_StatusRace ==
    /\ (obs.read /\ obs.dot = <<241, 0>>) =>
          /\ Bit(obs.data, 7) = 0
          /\ obs.nmis = 0
    /\ (obs.read /\ obs.dot \in {<<241, 1>>, <<241, 2>>}) =>
          /\ Bit(obs.data, 7) = 1
          /\ obs.nmis = 0

\* the same with the position taken to be the one the PPU shows at the
\* moment of the load, after it handled its dot
StatusRaceAtRead ==
    /\ (obs.read /\ obs.at = <<241, 0>>) =>
          /\ Bit(obs.data, 7) = 0
          /\ obs.nmis = 0
    /\ (obs.read /\ obs.at \in {<<241, 1>>, <<241, 2>>}) =>
          /\ Bit(obs.data, 7) = 1
          /\ obs.nmis = 0

\* what the code does: the load returns V-blank = 1 exactly when the PPU
\* has handled dot (241, 1), and Cpu6502.NMI is called once in the frame,
\* in the tick that handles that dot, whether PPUSTATUS was loaded or not
StatusRaceAsCoded ==
    /\ obs.read =>
          Bit(obs.data, 7) = (IF obs.dot[1] = 241 /\ obs.dot[2] >= 1 THEN 1 ELSE 0)
    /\ (obs.kind = "Clock" /\ nes.Ppu.frames + 1 = obs.target
                            /\ ~nes.Ppu.frameComplete) =>
          obs.nmis = (IF nes.Ppu.scanline = 241 /\ nes.Ppu.cycle >= 2 THEN 1 ELSE 0)

\* a load in the tick of dot (241, 0) returned V-blank = 0 and the NMI was
\* taken in the next tick
RaceLoadBefore ==
    /\ obs.read /\ obs.dot = <<241, 0>> /\ Bit(obs.data, 7) = 0
    /\ obs.nmis = 1 /\ nes.Cpu.Cycles > 0

\* a load in the tick of dot (241, 1) returned V-blank = 1 and the NMI was
\* taken in the same tick
RaceLoadAt ==
    /\ obs.read /\ obs.dot = <<241, 1>> /\ Bit(obs.data, 7) = 1
    /\ obs.nmis = 1 /\ nes.Ppu.scanline = 241 /\ nes.Ppu.cycle = 2

----------------------------------------------------------------------------
(* C31: the read buffer of PPUDATA, under SpecPort.  The byte a load       *)
(* returns is the data of Bus.CpuRead applied to the state before the load *)
(* (obs.prev) with the same cartridge byte (obs.data).                     *)

\* the byte the last load of a PPU port returned
PortLoaded == CpuRead(obs.prev, ppuMinAddr + obs.port, obs.data).data

\* the byte on the PPU bus at V before the last port access
ByteAtV == ppuRead(obs.prev.Ppu, obs.prev.Cart.mirroring, obs.prev.Ppu.vRam, obs.data)

\* C31: a PPUDATA read with V modulo 0x4000 below 0x3F00 returns the old
\* content of the read buffer and refills the buffer with the byte at V;
\* with V modulo 0x4000 in 0x3F00..0x3FFF it returns the palette byte at V
\* itself; in both cases V then grows by the PPUCTRL step.
C31_DataRead ==
    (obs.kind = "Load" /\ obs.port = 7) =>
        /\ obs.prev.Ppu.vRam % 16384 < paletteAddr =>
               /\ PortLoaded = obs.prev.Ppu.dataBuffer
               /\ nes.Ppu.dataBuffer = ByteAtV
        /\ obs.prev.Ppu.vRam % 16384 >= paletteAddr => PortLoaded = ByteAtV
        /\ nes.Ppu.vRam = obs.prev.Ppu.vRam + vramStep(obs.prev.Ppu)

\* What the code does: the same, with the palette range judged on V itself,
\* so that every V from 0x3F00 up is read without delay.
DataReadAsCoded ==
    (obs.kind = "Load" /\ obs.port = 7) =>
        /\ obs.prev.Ppu.vRam < paletteAddr =>
               /\ PortLoaded = obs.prev.Ppu.dataBuffer
               /\ nes.Ppu.dataBuffer = ByteAtV
        /\ obs.prev.Ppu.vRam >= paletteAddr => PortLoaded = ByteAtV
        /\ nes.Ppu.vRam = obs.prev.Ppu.vRam + vramStep(obs.prev.Ppu)

\* a PPUDATA read with V = 0x4000, which mirrors pattern address 0
DataReadPastTop ==
    /\ obs.kind = "Load" /\ obs.port = 7
    /\ obs.prev.Ppu.vRam = 16384
    /\ PortLoaded # obs.prev.Ppu.dataBuffer

----------------------------------------------------------------------------
(* One indirect jump (SpecJump).  The CPU stands at an instruction         *)
(* boundary at 0x8000 where the cartridge holds JMP (ptr); RAM holds       *)
(* different bytes at the first and last cells of several pages, so that   *)
(* the cell the high byte is read from shows in the PC.  For a pointer     *)
(* into the cartridge the two bytes behind it are inputs.                  *)

\* low and high bytes of the pointer: RAM and its mirrors, the cartridge
JumpPtrLo == {0, 16, 254, 255}
JumpPtrHi == {0, 2, 7, 16, 128, 255}

\* the bytes the cartridge may hold behind a pointer
JumpRomLo == {52, 0}
JumpRomHi == {18, 128}

\* RAM with [0x0000] = 0x12, [0x00FF] = 0x34, [0x0100] = 0 and other cells
\* set apart; with a byte added at 0x0100
JumpRam ==
    LET cells == << <<0, 18>>, <<1, 154>>, <<16, 86>>, <<17, 120>>, <<254, 3>>,
                    <<255, 52>>, <<512, 101>>, <<513, 7>>, <<766, 9>>, <<767, 33>>,
                    <<768, 67>>, <<1792, 169>>, <<2046, 11>>, <<2047, 135>> >>
        filled == [a \in {cells[i][1] : i \in 1..Len(cells)} |->
                      (CHOOSE c \in {cells[i] : i \in 1..Len(cells)} : c[1] = a)[2]]
    IN  { filled, MemWrite(filled, 256, 205) }

InitJump ==
    /\ \E ram \in JumpRam : \E status \in BranchStatus :
          nes = [AtBoundary(cartMinAddr, 0, 253, status) EXCEPT !.Ram = ram]
    /\ obs = NewOpObs

\* Cpu6502.Clock on JMP (ptr), opcode 0x6C
ClockJump ==
    /\ obs.kind = "New"
    /\ \E lo \in JumpPtrLo : \E hi \in JumpPtrHi :
       \E ptrLo \in JumpRomLo : \E ptrHi \in JumpRomHi :
          LET in == [Instr(108, lo, hi) EXCEPT !.ptrLo = ptrLo, !.ptrHi = ptrHi]
          IN  /\ nes' = Cpu_Clock(nes, in)
              /\ obs' = [obs EXCEPT !.kind = "Exec", !.prev = nes, !.in = in]

NextJump == ClockJump

SpecJump == InitJump /\ [][NextJump]_vars

\* the pointer of the jump executed
JumpPtr == obs.in.hi * 256 + obs.in.lo

\* C32: JMP (ptr) reads the target's low byte from ptr and its high byte
\* from ptr+1 when ptr's low byte is not 0xFF, from ptr & 0xFF00 when it
\* is; with [0x10FF] = 0x34, [0x1100] = 0x00 and [0x1000] = 0x12,
\* JMP (0x10FF) sets PC to 0x1234.
C32_IndirectJump ==
    obs.kind = "Exec" =>
        LET pre == obs.prev
            hiAt == IF JumpPtr % 256 # 255 THEN JumpPtr + 1
                    ELSE (JumpPtr \div 256) * 256
        IN  /\ InstName[obs.in.op + 1] = "JMP" /\ InstAddrMode[obs.in.op + 1] = "IND"
            /\ nes.Cpu.Pc = read(pre, hiAt, obs.in.ptrHi) * 256
                            + read(pre, JumpPtr, obs.in.ptrLo)
            /\ ( /\ JumpPtr = 16 * 256 + 255
                 /\ read(pre, 16 * 256 + 255, 0) = 52
                 /\ read(pre, 17 * 256, 0) = 0
                 /\ read(pre, 16 * 256, 0) = 18 ) => nes.Cpu.Pc = 18 * 256 + 52

\* JMP (0x10FF) executed with the three cells as in the example
C32_Witness ==
    /\ obs.kind = "Exec" /\ JumpPtr = 16 * 256 + 255
    /\ read(obs.prev, 17 * 256, 0) = 0
    /\ nes.Cpu.Pc = 18 * 256 + 52

\* a pointer on the last byte of a page whose next cell holds another byte
\* than the first cell of the page
C32_WitnessPage ==
    /\ obs.kind = "Exec" /\ JumpPtr = 7 * 256 + 255
    /\ nes.Cpu.Pc = 169 * 256 + 135
    /\ read(obs.prev, 8 * 256, 0) = 18

----------------------------------------------------------------------------
(* C33: Z and N after the instructions that derive them from a result,     *)
(* under SpecCpu.  The value written is read back from the machine after   *)
(* the instruction: the register it names, or the cell at AddrAbs for an   *)
(* instruction in a memory mode.                                           *)

ShiftInstr == { "ASL", "LSR", "ROL", "ROR" }

\* the instructions whose result goes to A, to X, to Y, to memory
ResultInA == { "LDA", "TXA", "TYA", "AND", "ORA", "EOR", "PLA", "ADC", "SBC" }
ResultInX == { "LDX", "TAX", "TSX", "INX", "DEX" }
ResultInY == { "LDY", "TAY", "INY", "DEY" }
ResultInMem == { "INC", "DEC" }

\* the value the instruction of opcode op has written, in the bus after it
Written(b, op) ==
    LET name == InstName[op + 1]
        inMem == name \in ResultInMem
                 \/ (name \in ShiftInstr /\ InstAddrMode[op + 1] # "IMP")
    IN  IF inMem THEN read(b, b.Cpu.AddrAbs, 0)
        ELSE IF name \in ResultInX THEN b.Cpu.X
        ELSE IF name \in ResultInY THEN b.Cpu.Y
        ELSE b.Cpu.A

\* Z is set iff v is zero and N is bit 7 of v
ZNFollow(b, v) ==
    /\ (Bit(b.Cpu.Status, 1) = 1) = (v = 0)
    /\ Bit(b.Cpu.Status, 7) = Bit(v, 7)

\* the last tick executed an instruction of the set
Executed(names) ==
    obs.kind = "CpuClock" /\ obs.exec /\ InstName[nes.Cpu.Opcode + 1] \in names

\* C33: after a load, a transfer other than TXS, AND/ORA/EOR, an increment
\* or decrement, PLA, ADC/SBC or a shift or rotate in accumulator or memory
\* mode, Z is set iff the 8-bit value written is zero and N is bit 7 of
\* that value, whatever A holds otherwise.
C33_ZeroNegative ==
    Executed(ResultInA \cup ResultInX \cup ResultInY \cup ResultInMem \cup ShiftInstr) =>
        ZNFollow(nes, Written(nes, nes.Cpu.Opcode))

\* What the code does: the same for every instruction but ASL in a memory
\* mode, whose Z follows the accumulator and whose N follows the result.
ZeroNegativeAsCoded ==
    Executed(ResultInA \cup ResultInX \cup ResultInY \cup ResultInMem \cup ShiftInstr) =>
        IF InstName[nes.Cpu.Opcode + 1] = "ASL" /\ InstAddrMode[nes.Cpu.Opcode + 1] # "IMP"
        THEN /\ (Bit(nes.Cpu.Status, 1) = 1) = (nes.Cpu.A = 0)
             /\ Bit(nes.Cpu.Status, 7) = Bit(Written(nes, nes.Cpu.Opcode), 7)
        ELSE ZNFollow(nes, Written(nes, nes.Cpu.Opcode))

\* ASL of a memory cell that left a non-zero byte there, with A = 0
AslMemoryNonZero ==
    /\ Executed({"ASL"}) /\ InstAddrMode[nes.Cpu.Opcode + 1] = "ZP0"
    /\ nes.Cpu.A = 0 /\ Written(nes, nes.Cpu.Opcode) = 254
    /\ Bit(nes.Cpu.Status, 1) = 1

\* LSR of a memory cell that left a non-zero byte there, with A = 0
LsrMemoryNonZero ==
    /\ Executed({"LSR"}) /\ InstAddrMode[nes.Cpu.Opcode + 1] = "ZP0"
    /\ nes.Cpu.A = 0 /\ Written(nes, nes.Cpu.Opcode) = 127
    /\ Bit(nes.Cpu.Status, 1) = 0

----------------------------------------------------------------------------
(* C34: the transfers from T to V, under SpecIdle with the background      *)
(* shown.  At cycle 257 and at cycles 280..304 the PPU clock makes no      *)
(* other change of V, so V after the clock is compared with V before it    *)
(* (obs.prev) and with T.                                                  *)

\* the last step was a Bus.Clock whose PPU clock handled a dot of the
\* cycles given on a scanline of the lines given, with rendering enabled
\* and no port store by the CPU
TransferDot(lines, cycles) ==
    /\ obs.kind = "Clock" /\ obs.portWrite = -1
    /\ obs.prev.Ppu.scanline \in lines /\ obs.prev.Ppu.cycle \in cycles
    /\ shouldRender(obs.prev.Ppu)

\* the horizontal bits of a loopy register: coarse X and nametable bit 10
HorizontalBits(r) == <<GetField(r, 0, 5), Bit(r, 10)>>

\* the vertical bits: fine Y, coarse Y and nametable bit 11
VerticalBits(r) == <<GetField(r, 12, 3), GetField(r, 5, 5), Bit(r, 11)>>

\* C34: with rendering enabled, the transfer at cycle 257 of a visible or
\* the pre-render scanline sets V's coarse X and horizontal nametable bit
\* to T's and leaves V's fine Y, coarse Y and vertical nametable bit as
\* they were; the transfer at cycles 280..304 of the pre-render scanline
\* sets V's fine Y, coarse Y and vertical nametable bit to T's and leaves
\* V's coarse X and horizontal nametable bit as they were.
C34_Transfers ==
    /\ TransferDot(-1..239, {257}) =>
           /\ HorizontalBits(nes.Ppu.vRam) = HorizontalBits(nes.Ppu.tRam)
           /\ VerticalBits(nes.Ppu.vRam) = VerticalBits(obs.prev.Ppu.vRam)
    /\ TransferDot({-1}, 280..304) =>
           /\ VerticalBits(nes.Ppu.vRam) = VerticalBits(nes.Ppu.tRam)
           /\ HorizontalBits(nes.Ppu.vRam) = HorizontalBits(obs.prev.Ppu.vRam)

\* What the code does: the getters of coarse Y, fine Y and the nametable
\* bits return 0, and setNametable replaces both nametable bits, so the
\* transfer at cycle 257 copies coarse X and clears both nametable bits,
\* and the transfer at 280..304 clears everything but coarse X.
TransfersAsCoded ==
    /\ TransferDot(-1..239, {257}) =>
           /\ GetField(nes.Ppu.vRam, 0, 5) = GetField(nes.Ppu.tRam, 0, 5)
           /\ GetField(nes.Ppu.vRam, 10, 2) = 0
           /\ GetField(nes.Ppu.vRam, 12, 3) = GetField(obs.prev.Ppu.vRam, 12, 3)
           /\ GetField(nes.Ppu.vRam, 5, 5) = GetField(obs.prev.Ppu.vRam, 5, 5)
    /\ TransferDot({-1}, 280..304) =>
           nes.Ppu.vRam % 32768 = GetField(obs.prev.Ppu.vRam, 0, 5)

\* the first transfer at cycle 257, which found the vertical nametable bit
\* of V set and cleared it
TransferClearsVertical ==
    /\ TransferDot({0}, {257})
    /\ Bit(obs.prev.Ppu.vRam, 11) = 1 /\ Bit(nes.Ppu.vRam, 11) = 0

\* a transfer on the pre-render scanline that left V's vertical bits
\* different from T's
TransferPreRender ==
    /\ TransferDot({-1}, {280})
    /\ VerticalBits(nes.Ppu.vRam) # VerticalBits(nes.Ppu.tRam)

----------------------------------------------------------------------------
(* The nametables (SpecTable).  The cartridge inserted is mirrored         *)
(* horizontally or vertically; bytes are written to and read from          *)
(* nametable addresses through Ppu.ppuWrite and Ppu.ppuRead.  obs.shadow   *)
(* keeps, apart from the PPU, the byte last written to each physical cell  *)
(* under the mapping of the two mirrorings: horizontal, logical tables 0   *)
(* and 1 on physical table 0 and 2 and 3 on physical table 1; vertical, 0  *)
(* and 2 on physical table 0 and 1 and 3 on physical table 1.              *)

MaxTableOps == 3

Mirrorings == { "horizontal", "vertical" }

\* addresses in each logical table, at its ends, and in the mirror at 0x3000
TableAddrs ==
    { 8192, 8192 + 5, 8192 + 1023, 8192 + 1024, 8192 + 1024 + 5,
      8192 + 2048 + 5, 8192 + 3072 + 5, 8192 + 4095,
      12288 + 5, 12288 + 1024 + 5, 12288 + 2048 + 5, 12288 + 3072 + 5, 16127 }

TableBytes == { 17, 34 }

\* the physical table of a logical table under a mirroring
PhysicalTable(mirroring, logical) ==
    IF mirroring = "horizontal" THEN logical \div 2 ELSE logical % 2

\* the physical cell of a nametable address: 0x3000-0x3EFF mirrors
\* 0x2000-0x2EFF
PhysicalCell(mirroring, addr) ==
    LET rel == (addr - 8192) % 4096
    IN  <<PhysicalTable(mirroring, rel \div 1024), rel % 1024>>

NewTableObs ==
    [ kind |-> "New", ops |-> 0, addr |-> 0, data |-> 0, wrote |-> 0,
      shadow |-> [c \in {} |-> 0] ]

InitTable ==
    /\ \E mirroring \in Mirrorings : nes = [NewBus EXCEPT !.Cart.mirroring = mirroring]
    /\ obs = NewTableObs

\* Ppu.ppuWrite to a nametable address
TableWrite ==
    /\ obs.ops < MaxTableOps
    /\ \E addr \in TableAddrs : \E data \in TableBytes :
          LET cell == PhysicalCell(nes.Cart.mirroring, addr)
          IN  /\ nes' = [nes EXCEPT !.Ppu = ppuWrite(@, nes.Cart.mirroring, addr, data)]
              /\ obs' = [obs EXCEPT
                           !.kind = "Write", !.ops = @ + 1, !.addr = addr, !.data = data,
                           !.wrote = addr,
                           !.shadow = [c \in (DOMAIN @) \cup {cell} |->
                                          IF c = cell THEN data ELSE @[c]] ]

\* Ppu.ppuRead of a nametable address
TableRead ==
    /\ obs.ops < MaxTableOps
    /\ \E addr \in TableAddrs :
          /\ nes' = nes
          /\ obs' = [obs EXCEPT
                       !.kind = "Read", !.ops = @ + 1, !.addr = addr,
                       !.data = ppuRead(nes.Ppu, nes.Cart.mirroring, addr, 0) ]

NextTable == TableWrite \/ TableRead

SpecTable == InitTable /\ [][NextTable]_vars

\* C35: a read of a nametable address returns the byte last written
\* through any address of the same physical cell, the cells being those of
\* horizontal mirroring (tables 0, 1 -> 0 and 2, 3 -> 1) or of vertical
\* mirroring (0, 2 -> 0 and 1, 3 -> 1), with 0x3000-0x3EFF mirroring
\* 0x2000-0x2EFF; nametableRead and nametableWrite agree on the cell.
C35_Mirroring ==
    /\ obs.kind = "Read" =>
           LET cell == PhysicalCell(nes.Cart.mirroring, obs.addr)
           IN  obs.data = IF cell \in DOMAIN obs.shadow THEN obs.shadow[cell] ELSE 0
    /\ obs.kind = "Write" =>
           nametableRead(nes.Ppu, nes.Cart.mirroring, obs.addr) = obs.data

\* under vertical mirroring, a byte written in table 0 read back in table 2
C35_Witness ==
    /\ obs.kind = "Read" /\ nes.Cart.mirroring = "vertical"
    /\ obs.wrote = 8192 + 5 /\ obs.addr = 12288 + 2048 + 5
    /\ obs.data = 34

\* under horizontal mirroring, a byte written in table 3 read back in
\* table 2 and not in table 1
C35_WitnessHorizontal ==
    /\ obs.kind = "Read" /\ nes.Cart.mirroring = "horizontal"
    /\ obs.wrote = 8192 + 3072 + 5 /\ obs.addr = 8192 + 2048 + 5
    /\ obs.data = 17
    /\ nametableRead(nes.Ppu, "horizontal", 8192 + 1024 + 5) = 0

----------------------------------------------------------------------------
(* Bus.Run frame by frame (SpecLive).  After the reset Bus.Run starts; its *)
(* outer loop tests display.window.Closed(), clocks the bus until the PPU  *)
(* reports the frame complete, polls the controllers, lowers the flag and  *)
(* tests the window again.  The cartridge turns the NMI on or off at the   *)
(* reset vector and may start an OAM DMA right after.  obs.running is the  *)
(* outcome of the last window test and obs.since counts the Bus.Clock      *)
(* calls made since the flag was last lowered.  The window is closed at    *)
(* the latest after MaxLiveFrames frames.  The inner loop of Bus.Run       *)
(* calls Bus.Clock again and again, nothing else runs beside it: the clock *)
(* step is taken whenever it can be (weak fairness, FairClock).            *)

MaxLiveFrames == 3

NewLiveObs == [ kind |-> "New", running |-> FALSE, since |-> 0, longest |-> 0 ]

InitLive == nes = NewBus /\ obs = NewLiveObs

\* main(): Cpu.Reset()
ResetLive ==
    /\ obs.kind = "New"
    /\ nes' = Cpu_Reset(nes, ResetIn)
    /\ obs' = [obs EXCEPT !.kind = "Reset"]

\* Bus.Run up to the first test of the window
RunLive ==
    /\ obs.kind = "Reset"
    /\ nes' = nes
    /\ \E closed \in BOOLEAN : obs' = [obs EXCEPT !.kind = "Run", !.running = ~closed]

MenuLive ==
    IF ~(Fetches(nes) /\ nes.Cpu.Pc >= cartMinAddr) THEN {NOP}
    ELSE IF nes.Cpu.Pc = 32768 THEN {LDAimm(128), LDAimm(2)}
    ELSE IF nes.Cpu.Pc = 32770 THEN {STAabs(8192)}
    ELSE IF nes.Cpu.Pc = 32773 THEN {NOP, STAabs(dmaAddr)}
    ELSE {NOP}

\* Bus.Run: for !b.Ppu.frameComplete { b.Clock() }
ClockLive ==
    /\ obs.running
    /\ ~nes.Ppu.frameComplete
    /\ \E in \in MenuLive : nes' = Bus_Clock(nes, in)
    /\ obs' = [obs EXCEPT !.kind = "Clock", !.since = @ + 1]

\* Bus.Run after the clock loop: the controllers are polled, the flag is
\* lowered and the window is tested
FrameLive ==
    /\ obs.running
    /\ nes.Ppu.frameComplete
    /\ \E keys \in [0..1 -> {NewController}] :
          nes' = Run_frame(nes, keys, FrameInterval)
    /\ \E closed \in BOOLEAN :
          /\ nes.Ppu.frames >= MaxLiveFrames => closed
          /\ obs' = [obs EXCEPT !.kind = "Frame", !.running = ~closed, !.since = 0,
                                !.longest = IF obs.since > @ THEN obs.since ELSE @]

NextLive == ResetLive \/ RunLive \/ ClockLive \/ FrameLive

\* ENABLED ClockLive: Bus.Clock is defined on every state of the bus, so
\* the clock step can be taken exactly when its two guards hold
ClockReady == obs.running /\ ~nes.Ppu.frameComplete

\* WF_vars(ClockLive), written out: the clock step is infinitely often not
\* enabled or infinitely often taken.  ClockLive is the one step that adds
\* to obs.since.
FairClock == []<>(~ClockReady) \/ []<><<obs'.since = obs.since + 1>>_vars

SpecLive == InitLive /\ [][NextLive]_vars /\ FairClock

\* C36: while Bus.Run runs, the frame-complete flag is set after at most
\* 341 * 262 calls of Bus.Clock, whatever the CPU executes and with or
\* without DMA and NMI, and it does get set; the flag is lowered and the
\* window is tested only in a step taken with the flag set, never in the
\* middle of a frame.
C36_FrameCompletes ==
    /\ [](~nes.Ppu.frameComplete => obs.since < FrameDots)
    /\ [](obs.since <= FrameDots)
    /\ (obs.running /\ ~nes.Ppu.frameComplete) ~> nes.Ppu.frameComplete
    /\ [][ ( \/ (nes.Ppu.frameComplete /\ ~nes'.Ppu.frameComplete)
             \/ obs'.running # obs.running
             \/ nes'.Controller # nes.Controller )
           => (nes.Ppu.frameComplete /\ obs'.kind \in {"Run", "Frame"}) ]_vars

\* the window was closed after a frame of 341 * 262 clocks, taken with the
\* NMI on and an OAM DMA in the first frame
C36_Witness ==
    /\ obs.kind = "Frame" /\ ~obs.running
    /\ obs.longest = FrameDots
    /\ nes.Ppu.frames = MaxLiveFrames
    /\ Bit(nes.Ppu.ppuCtrl, 7) = 1
    /\ nes.dmaPage = 128

----------------------------------------------------------------------------
(* The unused status bit (SpecStatus).  The CPU stands, after the reset,   *)
(* at an instruction boundary with bit 5 of the status set and the other   *)
(* flags drawn from StatusStart; the five cells at the top of the stack    *)
(* page hold a byte from PullBytes.  Then Cpu6502.Clock, Cpu6502.NMI and   *)
(* Cpu6502.IRQ are called in any order: the first instruction is any of    *)
(* the 256 opcodes, the later ones those that write the status register    *)
(* as a whole or flag by flag.  obs.ops counts instructions and            *)
(* interrupts.                                                             *)

MaxStatusOps == 3

\* after Reset; with C, Z, D, V, N set as well; with B set as well
StatusStart == { 36, 36 + 1 + 2 + 8 + 64 + 128, 36 + 16 }

\* BRK, PHP, PLP, RTI, CLC, SEC, CLI, SEI, CLV, CLD, SED
StatusOpcodes == { 0, 8, 40, 64, 24, 56, 88, 120, 184, 216, 248 }

NewStatusObs == [ kind |-> "Reset", ops |-> 0, name |-> "", pulled |-> 0 ]

InitStatus ==
    /\ \E status \in StatusStart : \E fill \in PullBytes :
          nes = [AtBoundary(cartMinAddr, 0, 250, status) EXCEPT
                    !.Ram = IF fill = 0 THEN EmptyMem
                            ELSE [a \in (stackBase + 251)..(stackBase + 255) |-> fill]]
    /\ obs = NewStatusObs

\* Cpu6502.Clock
ClockStatus ==
    /\ nes.Cpu.Cycles = 0 => obs.ops < MaxStatusOps
    /\ \E op \in (IF nes.Cpu.Cycles # 0 THEN {NOP.op}
                  ELSE IF obs.ops = 0 THEN 0..255 ELSE StatusOpcodes) :
          LET in == Instr(op, 16, 0)
              exec == nes.Cpu.Cycles = 0
          IN  /\ nes' = Cpu_Clock(nes, in)
              /\ obs' = [obs EXCEPT
                           !.kind = IF exec THEN "Exec" ELSE "Tick",
                           !.ops = IF exec THEN @ + 1 ELSE @,
                           !.name = IF exec THEN InstName[nes'.Cpu.Opcode + 1] ELSE @,
                           !.pulled = IF exec THEN stackPop(nes).data ELSE @]

\* Cpu6502.NMI
NmiStatus ==
    /\ obs.ops < MaxStatusOps
    /\ nes' = Cpu_NMI(nes, NOP)
    /\ obs' = [obs EXCEPT !.kind = "Nmi", !.ops = @ + 1]

\* Cpu6502.IRQ
IrqStatus ==
    /\ obs.ops < MaxStatusOps
    /\ nes' = Cpu_IRQ(nes, NOP)
    /\ obs' = [obs EXCEPT !.kind = "Irq", !.ops = @ + 1]

NextStatus == ClockStatus \/ NmiStatus \/ IrqStatus

SpecStatus == InitStatus /\ [][NextStatus]_vars

\* C37: once Reset has been performed, bit 5 of the CPU status register is
\* 1 in every state, after any instructions (PLP and RTI pulling any byte,
\* BRK, the flag instructions) and any NMI or IRQ.
C37_UnusedFlag == Bit(nes.Cpu.Status, 5) = 1

\* RTI, as the third operation, has pulled a status byte whose bit 5 is
\* clear
C37_Witness ==
    /\ obs.kind = "Exec" /\ obs.name = "RTI" /\ obs.ops = MaxStatusOps
    /\ Bit(obs.pulled, 5) = 0

\* PLP has pulled a byte whose bit 5 is clear; an IRQ has followed an
\* instruction
C37_WitnessPlp ==
    \/ obs.kind = "Exec" /\ obs.name = "PLP" /\ obs.pulled = 16 /\ obs.ops = 2
    \/ obs.kind = "Irq" /\ obs.name = "PLP" /\ obs.pulled = 16


(***************************************************************************)
(* C38.  The range of the two loopy registers.  PpuLoopyReg is a uint16    *)
(* (ppuLoopyReg.go 20); the setters touch bits 0..14 only, and the two     *)
(* additions of Ppu.cpuRead / Ppu.cpuWrite (ppu.go 344-353, 411-420) and   *)
(* the one of incrementVerticalScroll (ppu.go 620-638) are plain uint16    *)
(* additions.                                                              *)
(***************************************************************************)

\* C38: in every reachable state the VRAM address register V and the
\* temporary register T are at most 0x7FFF.
C38_LoopyBound == nes.Ppu.vRam <= 32767 /\ nes.Ppu.tRam <= 32767

\* what the code keeps: T never has bit 15 set, V is a 16-bit value
LoopyBoundAsCoded == nes.Ppu.tRam <= 32767 /\ nes.Ppu.vRam <= 65535

\* a dot of rendering has carried V past bit 14: the fine y of V was 7, and
\* incrementVerticalScroll, reading it as 0, added 0x1000
LoopyPastTop ==
    /\ obs.kind = "Clock" /\ nes.Ppu.scanline = 5 /\ nes.Ppu.cycle = 257
    /\ nes.Ppu.vRam > 32767 /\ nes.Ppu.tRam <= 32767


----------------------------------------------------------------------------
(* C39.  The loop of Cpu6502.Disassemble, one line at a time (SpecLines).  *)
(* obs holds the locals of the call: the 32-bit counter addr and the keys  *)
(* of the map built so far; obs.prev is the bus when the call was made.    *)
(* Every byte of a cartridge read during one call is obs.rom.              *)

\* DisLine with a 16-bit counter
DisLine_short(b, addr, rom) ==
    LET r == CpuRead(b, Word(addr), rom)
        n == OperandBytes(InstAddrMode[r.data + 1])
        b1 == IF n = 0 THEN r.bus ELSE CpuRead(r.bus, Word(addr + 1), rom).bus
        b2 == IF n < 2 THEN b1 ELSE CpuRead(b1, Word(addr + 2), rom).bus
    IN  [ key |-> Word(addr), bus |-> b2, addr |-> Word(addr + 1 + n) ]

\* one pass of the loop body: the line address, the bus after the reads of
\* the opcode and of its operand bytes, and the counter after them
\* (a uint32 that a pass entered with addr <= 0xFFFF leaves below 2^32)
DisLine(b, addr, rom) ==
    LET r == CpuRead(b, Word(addr), rom)
        n == OperandBytes(InstAddrMode[r.data + 1])
        b1 == IF n = 0 THEN r.bus ELSE CpuRead(r.bus, Word(addr + 1), rom).bus
        b2 == IF n < 2 THEN b1 ELSE CpuRead(b1, Word(addr + 2), rom).bus
    IN  [ key |-> Word(addr), bus |-> b2, addr |-> addr + 1 + n ]

MaxLineCalls == 2
\* RAM, a range whose start is above its end, one byte, the PPU ports, the
\* cartridge, the top of the address space, its last page
LinePairs ==
    { <<0, 7>>, <<8, 3>>, <<0, 0>>, <<8192, 8199>>, <<32768, 32775>>,
      <<65528, 65535>>, <<65534, 65535>>, <<65535, 65535>>, <<65535, 0>>,
      <<65280, 65535>> }
\* NOP (no operand), LDA immediate (one operand byte), LDA absolute (two)
LineRom == {234, 169, 173}

NewLineObs ==
    [ kind |-> "New", prev |-> NewBus, calls |-> 0, start |-> 0, end |-> 0,
      rom |-> 234, addr |-> 0, keys |-> {} ]

InitLines == nes = NewBus /\ obs = NewLineObs

\* the call: addr := uint32(startAddr), an empty map
LinesCall ==
    /\ obs.kind \in {"New", "Done"}
    /\ obs.calls < MaxLineCalls
    /\ \E pair \in LinePairs : \E rom \in LineRom :
          obs' = [obs EXCEPT !.kind = "Call", !.prev = nes, !.calls = @ + 1,
                             !.start = pair[1], !.end = pair[2], !.rom = rom,
                             !.addr = pair[1], !.keys = {}]
    /\ UNCHANGED nes

LinesRunning == obs.kind \in {"Call", "Line"}

\* one pass of the loop
LinesStep ==
    /\ LinesRunning
    /\ obs.addr <= obs.end
    /\ LET l == DisLine(nes, obs.addr, obs.rom)
       IN  /\ nes' = l.bus
           /\ obs' = [obs EXCEPT !.kind = "Line", !.addr = l.addr,
                                 !.keys = @ \cup {l.key}]

\* the loop condition fails: the map is returned
LinesReturn ==
    /\ LinesRunning
    /\ ~(obs.addr <= obs.end)
    /\ obs' = [obs EXCEPT !.kind = "Done"]
    /\ UNCHANGED nes

NextLines == LinesCall \/ LinesStep \/ LinesReturn

\* a call that has started goes on: the loop is sequential code
FairLines == WF_vars(LinesStep) /\ WF_vars(LinesReturn)

SpecLines == InitLines /\ [][NextLines]_vars /\ FairLines

\* C39: Disassemble(start, end) terminates for every pair of 16-bit
\* addresses, end = 0xFFFF included (every pass of the loop moves the
\* counter up, and a call that has started returns); every key of the map
\* is in start..end, and start is a key of the returned map when
\* start <= end.
C39_Disassemble ==
    /\ [](obs.keys \subseteq obs.start .. obs.end)
    /\ []((obs.kind = "Done" /\ obs.start <= obs.end) => obs.start \in obs.keys)
    /\ [][obs'.kind = "Line" => (obs.addr < obs'.addr /\ obs'.addr <= obs.end + 3)]_vars
    /\ LinesRunning ~> (obs.kind = "Done")

\* a call with end = 0xFFFF has returned after a line whose operand bytes
\* were read at 0x0000 and 0x0001: the counter stands at 0x10001
C39_Witness ==
    /\ obs.kind = "Done" /\ obs.start = 65534 /\ obs.end = 65535
    /\ obs.addr = 65537 /\ obs.keys = {65534}

\* a call over the last page has returned, with a key for every byte of it
C39_WitnessPage ==
    /\ obs.kind = "Done" /\ obs.start = 65280 /\ obs.end = 65535
    /\ obs.addr = 65536 /\ obs.keys = 65280 .. 65535

\* the loop taken line by line reads what the loop as a whole reads
LinesAgree ==
    (obs.kind = "Done" /\ obs.end - obs.start < 16) =>
        nes = Disassemble(obs.prev, obs.start, obs.end, obs.rom)


----------------------------------------------------------------------------
(* C40.  Object attribute memory on its own (SpecOam): write, read and     *)
(* clear of oam.go applied to Ppu.oam in any order.  obs.before is the     *)
(* memory before the last operation, obs.data the byte written or read.    *)

\* objectAttributeMemory.clear: every field of every sprite is 0xFF
oamClear(oam) == [a \in 0..255 |-> 255]

MaxOamOps == 3
\* the four fields of sprite 0, the ends of sprite 1, a sprite in the
\* middle, the last byte
OamAddrs == {0, 1, 2, 3, 4, 7, 128, 255}
OamBytes == {0, 17, 255}

NewOamObs == [ kind |-> "New", ops |-> 0, addr |-> 0, data |-> 0, before |-> EmptyMem ]

InitOam == nes = NewBus /\ obs = NewOamObs

OamStore ==
    /\ obs.ops < MaxOamOps
    /\ \E a \in OamAddrs : \E d \in OamBytes :
          /\ nes' = [nes EXCEPT !.Ppu.oam = oamWrite(@, a, d)]
          /\ obs' = [obs EXCEPT !.kind = "Write", !.ops = @ + 1, !.addr = a,
                                !.data = d, !.before = nes.Ppu.oam]

OamLoad ==
    /\ obs.ops < MaxOamOps
    /\ \E a \in OamAddrs :
          /\ obs' = [obs EXCEPT !.kind = "Read", !.ops = @ + 1, !.addr = a,
                                !.data = oamRead(nes.Ppu.oam, a),
                                !.before = nes.Ppu.oam]
          /\ UNCHANGED nes

OamClear ==
    /\ obs.ops < MaxOamOps
    /\ nes' = [nes EXCEPT !.Ppu.oam = oamClear(@)]
    /\ obs' = [obs EXCEPT !.kind = "Clear", !.ops = @ + 1, !.before = nes.Ppu.oam]

NextOam == OamStore \/ OamLoad \/ OamClear

SpecOam == InitOam /\ [][NextOam]_vars

\* C40: after oam.write(a, d), oam.read(a) returns d, and oam.read(b) for
\* every b # a returns what it returned before the write.
C40_OamRoundTrip ==
    obs.kind = "Write" =>
        /\ oamRead(nes.Ppu.oam, obs.addr) = obs.data
        /\ \A b \in (0..255) \ {obs.addr} :
              oamRead(nes.Ppu.oam, b) = oamRead(obs.before, b)

\* what the code does: a write leaves every byte as it was, its own too
OamWriteAsCoded ==
    obs.kind = "Write" =>
        \A b \in 0..255 : oamRead(nes.Ppu.oam, b) = oamRead(obs.before, b)

\* a byte other than the one held has been written over a cleared memory,
\* and the memory still reads 0xFF there
OamWriteLost ==
    /\ obs.kind = "Write" /\ obs.addr = 7 /\ obs.data = 17
    /\ oamRead(obs.before, 7) = 255 /\ oamRead(nes.Ppu.oam, 7) = 255
====
